---------------------------- MODULE Spec2Model ----------------------------
(* A state-machine model of the eventuraa client: the Session Store         *)
(* (AuthProvider + the axios instance with its interceptors), the sign-in   *)
(* and sign-up pages, the role-gated router, the admin review views, the    *)
(* organizer and event contexts, the public catalog and the event creation  *)
(* form.                                                                    *)
EXTENDS Naturals, Sequences, FiniteSets, Bags, TLC

VARIABLES
  pc,             \* "boot" before the AuthProvider effect ran, "ready" after, "crashed" if it threw
  localStorage,   \* durable tier:        [token |-> entry, user |-> entry]
  sessionStorage, \* session-scoped tier: [token |-> entry, user |-> entry]
  user,           \* AuthProvider state `user`
  token,          \* AuthProvider state `token`
  loading,        \* AuthProvider state `loading`
  defaultAuth,    \* api.defaults.headers.common['Authorization']
  route,          \* current location
  isLoading,      \* busy flag of the page mounted at `route`
  errors,         \* error slots set on the page mounted at `route`
  inflight,       \* bag of sign-in / sign-up requests awaiting their response
  netUsed,        \* a request has been issued since the process started
  loginTok,       \* history: token of the last login() not yet followed by logout / 401
  lastOp,         \* history: the handler that ran last, its input and what it emitted
  adminView,      \* which admin view is mounted: "pending" (PendingEvents) or "detail" (EventApproval)
  events,         \* PendingEvents state `events` (sequence of event ids)
  peLoading,      \* PendingEvents state `loading`
  peError,        \* PendingEvents state `error` is set
  quick,          \* bag of in-flight handleQuickAction PUTs: [id, snapshot, live]
  listFetch,      \* bag of in-flight fetchPendingEvents GETs: [live]
  id,             \* EventApproval route parameter `id` (0 while the view is not mounted)
  event,          \* EventApproval state `event`: "null" or the loaded event's approvalStatus
  feedback,       \* EventApproval state `feedback`
  evLoading,      \* EventApproval state `loading`
  evError,        \* EventApproval state `error` is set
  submitting,     \* EventApproval state `submitting`
  review,         \* bag of in-flight handleReview PUTs: [live]
  detailFetch,    \* bag of in-flight fetchEventDetails GETs: [id, live]
  lastRv,         \* history: the review handler that ran last, its input and what it emitted
  accepted,       \* history: ids of the events whose review the server has answered with success
  organizer,      \* OrganizerContext state `organizer`: "null" or "profile"
  orgLoading,     \* OrganizerContext state `loading`
  orgError,       \* OrganizerContext state `error` is set
  ctxEvents,      \* EventContext state `events` (sequence of event ids)
  ctxLoading,     \* EventContext state `loading`
  ctxError,       \* EventContext state `error` is set
  ctxInflight,    \* bag of in-flight requests of the two contexts: [kind, id, snapshot]
  lastCtx,        \* history: the context call that ran last and the request it issued
  catView,        \* the public catalog (EventsList) is "mounted" or "away"
  catEvents,      \* EventsList state `events` (sequence of event documents)
  catLoading,     \* EventsList state `loading`
  catError,       \* EventsList state `error` is set
  searchTerm,     \* EventsList state `searchTerm`
  selectedCategory, \* EventsList state `selectedCategory`
  catFetch,       \* bag of in-flight GET /events requests: [live]
  lastCat,        \* history: the catalog step that ran last and what the server withheld
  formView,       \* CreateEvent is "mounted" or the organizer is "away" from it
  title,          \* CreateEvent state `title`
  date,           \* CreateEvent state `date`: "undefined" or the day picked
  time,           \* CreateEvent state `time`
  location,       \* CreateEvent state `location`
  category,       \* CreateEvent state `category`
  description,    \* CreateEvent state `description`
  ticketTypes,    \* CreateEvent state `ticketTypes`: sequence of [name, price, quantity]
  isSubmitting,   \* CreateEvent state `isSubmitting`
  formErrors,     \* CreateEvent state `errors`: function from the slots that are set to their message
  formPost,       \* bag of in-flight POST /public/events: [errors (of the submitting render)]
  isUploading,    \* CreateEvent state `isUploading`
  eventImages,    \* CreateEvent state `eventImages`: sequence of image URLs
  imagePost,      \* bag of in-flight POST /upload/image: [snapshot (eventImages of the uploading render)]
  lastForm        \* history: the form handler that ran last and what it emitted

sessionVars == <<pc, localStorage, sessionStorage, user, token, loading, defaultAuth,
                 route, isLoading, errors, inflight, netUsed, loginTok, lastOp>>
reviewVars  == <<adminView, events, peLoading, peError, quick, listFetch, id, event, feedback,
                 evLoading, evError, submitting, review, detailFetch, lastRv, accepted>>
ctxVars     == <<organizer, orgLoading, orgError, ctxEvents, ctxLoading, ctxError,
                 ctxInflight, lastCtx>>
catVars     == <<catView, catEvents, catLoading, catError, searchTerm, selectedCategory,
                 catFetch, lastCat>>
formVars    == <<formView, title, date, time, location, category, description, ticketTypes,
                 isSubmitting, formErrors, formPost, isUploading, eventImages, imagePost,
                 lastForm>>
pageVars    == <<catVars, formVars>>
vars == <<sessionVars, reviewVars, ctxVars, pageVars>>

(***************************************************************************)
(* Bounds                                                                  *)
(***************************************************************************)
MaxInFlight == 1     \* sign-in / sign-up requests in flight at once
MaxEvents == 2       \* event ids known to the admin views
MaxQuick == 2        \* requests of the admin views in flight at once
MaxCtx == 2          \* requests of the organizer / event contexts in flight at once
MaxCtxEvents == 2    \* event ids known to the event context
MaxCatalog == 3      \* events the server knows of
MaxImages == 1       \* images attached to the event being created
MaxTiers == 2        \* ticket tiers entered in the creation form

(***************************************************************************)
(* Values                                                                  *)
(***************************************************************************)
Null == "null"            \* JavaScript null
Undefined == "undefined"  \* JavaScript undefined, and the text String(undefined)
Tokens == {"tokA", "tokB"}
Users == {"org1", "adm1"}

Truthy(v) == v \notin {Null, Undefined}

role(u) ==
  CASE u = "org1" -> "organizer"
    [] u = "adm1" -> "admin"
    [] u = "usr1" -> "user"
    [] u = "doc1" -> "doctor"
    [] OTHER -> Undefined

(* A storage entry is <<>> (getItem returns null), <<"str", s>> (the text s) *)
(* or <<"json", u>> (the JSON text of user u).                              *)
NoEntry == <<>>
EmptyStorage == [token |-> NoEntry, user |-> NoEntry]

(* setItem(key, String(value)) *)
setItem(value) == <<"str", value>>

(* setItem('user', JSON.stringify(userData)): JSON.stringify(undefined) is *)
(* undefined, which setItem stores as the text "undefined".                *)
setItemJSON(userData) ==
  IF userData = Undefined THEN <<"str", Undefined>> ELSE <<"json", userData>>

(* JSON.parse of a stored text: throws unless the text is JSON. *)
ParseThrows(entry) == entry[1] # "json"
JSONparse(entry) == entry[2]

Bearer(t) == <<"Bearer", t>>
NoHeader == <<>>

(***************************************************************************)
(* src/unnamed/part_003: the axios instance `api` and its interceptors     *)
(***************************************************************************)
(* Request interceptor: localStorage token, else sessionStorage token; if  *)
(* there is one it overrides the Authorization header, otherwise the       *)
(* instance default (api.defaults.headers.common) is what goes out.        *)
RequestInterceptor(ls, ss, dflt) ==
  LET tok == IF ls.token # NoEntry THEN ls.token ELSE ss.token
  IN IF tok # NoEntry THEN Bearer(tok[2]) ELSE dflt

ApiRequestAuth == RequestInterceptor(localStorage, sessionStorage, defaultAuth)

ResponseInterceptor_Keep(status, storage) == storage

(* Response interceptor: a 401 removes token and user from both tiers. *)
ResponseInterceptor(status, storage) ==
  IF status = "401" THEN EmptyStorage ELSE storage

(* Requests made with the global `axios` (EventContext, OrganizerContext)  *)
(* or with fetch (AuthForm) pass through no interceptor and no default.    *)
PlainRequestAuth == NoHeader

(***************************************************************************)
(* src/unnamed/part_004: routes and ProtectedRoute                         *)
(***************************************************************************)
RequiredRoles == {"user", "organizer", "admin"}

Paths == {"/", "/signin", "/organizer-login", "/organizer-signup", "/admin-login",
          "/organizer-portal", "/admin"}

(* The sign-in pages that insist on one role, and the two guarded routes. *)
RolePaths == {"/organizer-login", "/admin-login", "/doctor-login", "/organizer-portal", "/admin"}

requiredRoleOf(path) ==
  CASE path = "/organizer-portal" -> "organizer"
    [] path = "/admin" -> "admin"
    [] OTHER -> Null      \* a public route: not wrapped in ProtectedRoute

ProtectedRoute_NoRoleCheck(ld, usr, requiredRole) ==
  IF ld THEN "loading"
  ELSE IF ~Truthy(usr) THEN "/signin"
  ELSE "children"

ProtectedRoute_NoPlaceholder(ld, usr, requiredRole) ==
  IF ~Truthy(usr) THEN "/signin"
  ELSE IF requiredRole # Undefined /\ role(usr) # requiredRole THEN "/"
  ELSE "children"

(* "loading" (the placeholder), a redirect target, or "children". *)
ProtectedRoute(ld, usr, requiredRole) ==
  IF ld THEN "loading"
  ELSE IF ~Truthy(usr) THEN "/signin"
  ELSE IF requiredRole # Undefined /\ role(usr) # requiredRole THEN "/"
  ELSE "children"

(* The location after `path` is rendered: a <Navigate> replaces it. *)
Render(path, ld, usr) ==
  IF requiredRoleOf(path) = Null THEN path
  ELSE LET out == ProtectedRoute(ld, usr, requiredRoleOf(path))
       IN IF out \in {"loading", "children"} THEN path ELSE out

(* What the current route shows. *)
View ==
  IF requiredRoleOf(route) = Null THEN "public"
  ELSE ProtectedRoute(loading, user, requiredRoleOf(route))


(***************************************************************************)
(* Bookkeeping shared by the handlers                                      *)
(***************************************************************************)
NoReq == <<>>

Op(name, resp, tok, usr, remember, req, toast) ==
  [op |-> name, resp |-> resp, tok |-> tok, usr |-> usr,
   remember |-> remember, req |-> req, toast |-> toast]

(* Server answers to a sign-in / sign-up request. *)
ErrorKinds == {"failure", "401", "400", "400dup", "422", "422empty", "429", "500", "network"}
Responses ==
  [kind : {"success"}, token : Tokens, user : Users]
    \cup [kind : ErrorKinds, token : {Undefined}, user : {Undefined}]
(* One answer per branch the session handlers distinguish. *)
SessionResponses == {r \in Responses : r.kind \in {"success", "failure", "401", "500"}}

Req(page, rememberMe) == [page |-> page, rememberMe |-> rememberMe, live |-> TRUE]

(* Requests whose issuing component has unmounted: still answered, but     *)
(* their setState calls no longer reach a mounted component.               *)
Dead(b) ==
  LET S == {[r EXCEPT !.live = FALSE] : r \in BagToSet(b)}
  IN [d \in S |-> CopiesIn(d, b) + CopiesIn([d EXCEPT !.live = TRUE], b)]

Add(b, r) == b (+) SetToBag({r})
Remove(b, r) == b (-) SetToBag({r})

(* The router re-renders `target` with the new session state; leaving the  *)
(* current route unmounts its page (page state is lost).                   *)
Settle(target, infl, busy, errs) ==
  LET r == Render(target, loading', user')
  IN /\ route' = r
     /\ IF r # route
        THEN isLoading' = FALSE /\ errors' = {} /\ inflight' = Dead(infl)
        ELSE isLoading' = busy /\ errors' = errs /\ inflight' = infl

(***************************************************************************)
(* src/unnamed/part_003: AuthProvider                                      *)
(***************************************************************************)
loadUserFromStorage_NoHeader ==
  /\ pc = "boot"
  /\ LET savedToken == localStorage.token
         savedUser == localStorage.user
     IN IF savedToken # NoEntry /\ savedUser # NoEntry
        THEN IF ParseThrows(savedUser)
             THEN /\ pc' = "crashed"
                  /\ UNCHANGED <<user, token, defaultAuth, loading>>
             ELSE /\ user' = JSONparse(savedUser)
                  /\ token' = savedToken[2]
                  /\ defaultAuth' = defaultAuth
                  /\ loading' = FALSE
                  /\ pc' = "ready"
        ELSE /\ loading' = FALSE
             /\ pc' = "ready"
             /\ UNCHANGED <<user, token, defaultAuth>>
  /\ Settle(route, inflight, isLoading, errors)
  /\ lastOp' = Op("loadUserFromStorage", "none", Null, Null, "na", NoReq, "none")
  /\ UNCHANGED <<localStorage, sessionStorage, netUsed, loginTok>>

(* The mount effect. JSON.parse is not guarded: if it throws, the effect   *)
(* dies before setLoading(false).                                          *)
loadUserFromStorage ==
  /\ pc = "boot"
  /\ LET savedToken == localStorage.token
         savedUser == localStorage.user
     IN IF savedToken # NoEntry /\ savedUser # NoEntry
        THEN IF ParseThrows(savedUser)
             THEN /\ pc' = "crashed"
                  /\ UNCHANGED <<user, token, defaultAuth, loading>>
             ELSE /\ user' = JSONparse(savedUser)
                  /\ token' = savedToken[2]
                  /\ defaultAuth' = Bearer(savedToken[2])
                  /\ loading' = FALSE
                  /\ pc' = "ready"
        ELSE /\ loading' = FALSE
             /\ pc' = "ready"
             /\ UNCHANGED <<user, token, defaultAuth>>
  /\ Settle(route, inflight, isLoading, errors)
  /\ lastOp' = Op("loadUserFromStorage", "none", Null, Null, "na", NoReq, "none")
  /\ UNCHANGED <<localStorage, sessionStorage, netUsed, loginTok>>

(* login(newToken, userData): the storage and header writes; the state     *)
(* writes are the first two conjuncts.                                     *)
login(newToken, userData) ==
  /\ user' = userData
  /\ token' = newToken
  /\ localStorage' = [token |-> setItem(newToken), user |-> setItemJSON(userData)]
  /\ defaultAuth' = Bearer(newToken)
  /\ loginTok' = newToken

logout_TokenOnly ==
  /\ pc = "ready"
  /\ user' = Null
  /\ token' = Null
  /\ localStorage' = [localStorage EXCEPT !.token = <<>>]
  /\ defaultAuth' = NoHeader
  /\ loginTok' = Null
  /\ UNCHANGED <<pc, sessionStorage, loading, netUsed>>
  /\ Settle(route, inflight, isLoading, errors)
  /\ lastOp' = Op("logout", "none", Null, Null, "na", NoReq, "none")

logout ==
  /\ pc = "ready"
  /\ user' = Null
  /\ token' = Null
  /\ localStorage' = EmptyStorage
  /\ defaultAuth' = NoHeader
  /\ loginTok' = Null
  /\ UNCHANGED <<pc, sessionStorage, loading, netUsed>>
  /\ Settle(route, inflight, isLoading, errors)
  /\ lastOp' = Op("logout", "none", Null, Null, "na", NoReq, "none")

(* The page is loaded again (same tab: sessionStorage survives) or the     *)
(* browser is restarted (sessionStorage is gone). React state, the axios   *)
(* defaults and every pending request belong to the old process.          *)
Reload(sameTab) ==
  /\ pc' = "boot"
  /\ user' = Null
  /\ token' = Null
  /\ loading' = TRUE
  /\ defaultAuth' = NoHeader
  /\ sessionStorage' = IF sameTab THEN sessionStorage ELSE EmptyStorage
  /\ isLoading' = FALSE
  /\ errors' = {}
  /\ inflight' = EmptyBag
  /\ netUsed' = FALSE
  /\ loginTok' = Null
  /\ lastOp' = Op("Reload", "none", Null, Null, "na", NoReq, "none")
  /\ UNCHANGED <<localStorage, route>>

(* The user follows a link or types a location. *)
Go(path) ==
  /\ pc = "ready"
  /\ path # route
  /\ UNCHANGED <<pc, localStorage, sessionStorage, user, token, loading, defaultAuth,
                 netUsed, loginTok>>
  /\ Settle(path, inflight, isLoading, errors)
  /\ lastOp' = Op("Go", "none", Null, Null, "na", NoReq, "none")

(***************************************************************************)
(* Sign-in and sign-up pages                                               *)
(***************************************************************************)
EmailInputs == {"empty", "invalid", "valid"}   \* '', fails the e-mail pattern, matches it
PasswordInputs == {"empty", "present"}

(* Page state after a response: a request whose page unmounted changes none. *)
Busy(r) == IF r.live THEN FALSE ELSE isLoading
Errs(r, slots) == IF r.live THEN slots ELSE errors

CanIssue == BagCardinality(inflight) < MaxInFlight

(* --- src/unnamed/part_000: OrganizerLoginPage.handleLogin ------------- *)
OrganizerLoginHandleLogin(email, password, rememberMe) ==
  /\ pc = "ready" /\ route = "/organizer-login" /\ ~isLoading /\ CanIssue
  /\ LET slots == (IF email # "valid" THEN {"email"} ELSE {})
                    \cup (IF password = "empty" THEN {"password"} ELSE {})
     IN IF slots # {}
        THEN /\ errors' = slots
             /\ lastOp' = Op("OrganizerLogin.submit", "none", Null, Null, rememberMe, NoReq, "none")
             /\ UNCHANGED <<isLoading, inflight, netUsed>>
        ELSE /\ errors' = {}
             /\ isLoading' = TRUE
             /\ inflight' = Add(inflight, Req("OrganizerLogin", rememberMe))
             /\ netUsed' = TRUE
             /\ lastOp' = Op("OrganizerLogin.submit", "none", Null, Null, rememberMe,
                             <<"api", ApiRequestAuth>>, "none")
  /\ UNCHANGED <<pc, localStorage, sessionStorage, user, token, loading, defaultAuth,
                 route, loginTok>>

(* Store token and user data in the tier the "remember me" box selects. *)
StoreByRememberMe(rememberMe, tok, usr, ls, ss) ==
  IF rememberMe = "yes"
  THEN /\ localStorage' = [token |-> setItem(tok), user |-> setItemJSON(usr)]
       /\ sessionStorage' = ss
  ELSE /\ sessionStorage' = [token |-> setItem(tok), user |-> setItemJSON(usr)]
       /\ localStorage' = ls

(* The body of a role-specific login page's response handling (the organizer *)
(* and the doctor page differ in the role, the target and one status).       *)
RoleLoginResponse_NoRoleCheck(r, resp, name, wanted, target, passwordStatuses) ==
  LET ls == ResponseInterceptor(resp.kind, localStorage)
      ss == ResponseInterceptor(resp.kind, sessionStorage)
  IN /\ UNCHANGED <<pc, user, token, loading, defaultAuth, netUsed>>
     /\ loginTok' = IF resp.kind = "401" THEN Null ELSE loginTok
     /\ IF resp.kind = "success"
        THEN /\ StoreByRememberMe(r.rememberMe, resp.token, resp.user, ls, ss)
             /\ Settle(target, Remove(inflight, r), Busy(r), errors)
             /\ lastOp' = Op(name, "signedin", resp.token, resp.user, r.rememberMe, NoReq, "success")
        ELSE /\ localStorage' = ls
             /\ sessionStorage' = ss
             /\ Settle(route, Remove(inflight, r), Busy(r),
                       Errs(r, IF resp.kind \in passwordStatuses THEN {"password"}
                               ELSE {"general"}))
             /\ lastOp' = Op(name, resp.kind, resp.token, resp.user, r.rememberMe, NoReq, "error")

RoleLoginResponse(r, resp, name, wanted, target, passwordStatuses) ==
  LET ls == ResponseInterceptor(resp.kind, localStorage)
      ss == ResponseInterceptor(resp.kind, sessionStorage)
  IN /\ UNCHANGED <<pc, user, token, loading, defaultAuth, netUsed>>
     /\ loginTok' = IF resp.kind = "401" THEN Null ELSE loginTok
     /\ IF resp.kind = "success" /\ role(resp.user) = wanted
        THEN /\ StoreByRememberMe(r.rememberMe, resp.token, resp.user, ls, ss)
             /\ Settle(target, Remove(inflight, r), Busy(r), errors)
             /\ lastOp' = Op(name, "signedin", resp.token, resp.user, r.rememberMe, NoReq, "success")
        ELSE /\ localStorage' = ls
             /\ sessionStorage' = ss
             /\ Settle(route, Remove(inflight, r), Busy(r),
                       Errs(r, IF resp.kind \in passwordStatuses THEN {"password"}
                               ELSE {"general"}))
             /\ lastOp' = Op(name, IF resp.kind = "success" THEN "wrongrole" ELSE resp.kind,
                             resp.token, resp.user, r.rememberMe, NoReq, "error")

OrganizerLoginResponse(r, resp) ==
  /\ r \in BagToSet(inflight) /\ r.page = "OrganizerLogin"
  /\ RoleLoginResponse(r, resp, "OrganizerLogin.response", "organizer",
                       "/organizer-portal", {"401"})

(* --- src/client/src/pages/DoctorLoginPage.tsx: handleLogin ------------ *)
DoctorLoginHandleLogin(email, password, rememberMe) ==
  /\ pc = "ready" /\ route = "/doctor-login" /\ ~isLoading /\ CanIssue
  /\ LET slots == (IF email # "valid" THEN {"email"} ELSE {})
                    \cup (IF password = "empty" THEN {"password"} ELSE {})
     IN IF slots # {}
        THEN /\ errors' = slots
             /\ lastOp' = Op("DoctorLogin.submit", "none", Null, Null, rememberMe, NoReq, "none")
             /\ UNCHANGED <<isLoading, inflight, netUsed>>
        ELSE /\ errors' = {}
             /\ isLoading' = TRUE
             /\ inflight' = Add(inflight, Req("DoctorLogin", rememberMe))
             /\ netUsed' = TRUE
             /\ lastOp' = Op("DoctorLogin.submit", "none", Null, Null, rememberMe,
                             <<"api", ApiRequestAuth>>, "none")
  /\ UNCHANGED <<pc, localStorage, sessionStorage, user, token, loading, defaultAuth,
                 route, loginTok>>

DoctorLoginResponse(r, resp) ==
  /\ r \in BagToSet(inflight) /\ r.page = "DoctorLogin"
  /\ RoleLoginResponse(r, resp, "DoctorLogin.response", "doctor", "/doctor-portal", {"401"})

(* --- src/client/src/components/auth/AdminLogin.tsx: handleSubmit ------ *)
AdminLoginHandleSubmit(email, password) ==
  /\ pc = "ready" /\ route = "/admin-login" /\ ~isLoading /\ CanIssue
  /\ IF email = "empty" \/ password = "empty"
     THEN /\ errors' = {"general"}
          /\ lastOp' = Op("AdminLogin.submit", "none", Null, Null, "na", NoReq, "none")
          /\ UNCHANGED <<isLoading, inflight, netUsed>>
     ELSE /\ errors' = {}
          /\ isLoading' = TRUE
          /\ inflight' = Add(inflight, Req("AdminLogin", "na"))
          /\ netUsed' = TRUE
          /\ lastOp' = Op("AdminLogin.submit", "none", Null, Null, "na",
                          <<"api", ApiRequestAuth>>, "none")
  /\ UNCHANGED <<pc, localStorage, sessionStorage, user, token, loading, defaultAuth,
                 route, loginTok>>

AdminLoginResponse(r, resp) ==
  /\ r \in BagToSet(inflight) /\ r.page = "AdminLogin"
  /\ UNCHANGED <<pc, loading, netUsed>>
  /\ sessionStorage' = ResponseInterceptor(resp.kind, sessionStorage)
  /\ IF resp.kind = "success" /\ role(resp.user) = "admin"
     THEN /\ login(resp.token, resp.user)
          /\ Settle("/admin", Remove(inflight, r), Busy(r), errors)
          /\ lastOp' = Op("AdminLogin.response", "signedin", resp.token, resp.user, "na",
                          NoReq, "success")
     ELSE /\ localStorage' = ResponseInterceptor(resp.kind, localStorage)
          /\ loginTok' = IF resp.kind = "401" THEN Null ELSE loginTok
          /\ UNCHANGED <<user, token, defaultAuth>>
          /\ Settle(route, Remove(inflight, r), Busy(r), Errs(r, {"general"}))
          /\ lastOp' = Op("AdminLogin.response",
                          IF resp.kind = "success" THEN "wrongrole" ELSE resp.kind,
                          resp.token, resp.user, "na", NoReq, "none")

(* --- src/client/src/components/auth/AuthForm.tsx: handleSubmit -------- *)
(* type = 'login' on /signin (SignInPage), 'register' on /signup.          *)
AuthFormHandleSubmit(email, password, name, confirmMatches) ==
  /\ pc = "ready" /\ route \in {"/signin", "/signup"} /\ ~isLoading /\ CanIssue
  /\ IF \/ email = "empty" \/ password = "empty"
        \/ (route = "/signup" /\ (name = "empty" \/ ~confirmMatches))
     THEN /\ errors' = {"general"}
          /\ lastOp' = Op("AuthForm.submit", "none", Null, Null, "na", NoReq, "none")
          /\ UNCHANGED <<isLoading, inflight, netUsed>>
     ELSE /\ errors' = {}
          /\ isLoading' = TRUE
          /\ inflight' = Add(inflight, Req("AuthForm", "na"))
          /\ netUsed' = TRUE
          /\ lastOp' = Op("AuthForm.submit", "none", Null, Null, "na",
                          <<"fetch", PlainRequestAuth>>, "none")
  /\ UNCHANGED <<pc, localStorage, sessionStorage, user, token, loading, defaultAuth,
                 route, loginTok>>

(* response.ok covers every 2xx answer, whatever its `success` field says: *)
(* token and user are destructured from the body and handed to login().    *)
AuthFormResponse(r, resp) ==
  /\ r \in BagToSet(inflight) /\ r.page = "AuthForm"
  /\ UNCHANGED <<pc, loading, netUsed, sessionStorage>>
  /\ IF resp.kind \in {"success", "failure"}
     THEN /\ login(resp.token, resp.user)
          /\ Settle("/", Remove(inflight, r), Busy(r), errors)
          /\ lastOp' = Op("AuthForm.response",
                          IF resp.kind = "success" THEN "signedin" ELSE "failure",
                          resp.token, resp.user, "na", NoReq, "none")
     ELSE /\ UNCHANGED <<user, token, defaultAuth, localStorage, loginTok>>
          /\ Settle(route, Remove(inflight, r), Busy(r), Errs(r, {"general"}))
          /\ lastOp' = Op("AuthForm.response", resp.kind, resp.token, resp.user, "na",
                          NoReq, "none")

(* --- src/client/src/pages/OrganizerSignupPage.tsx: handleSignUp ------- *)
SignupFields == {"name", "email", "phone", "company", "password", "confirmPassword", "tos"}
(* The fields whose check fails for the entered form. *)
SignupInputs == {{}} \cup {{f} : f \in SignupFields} \cup {{"name", "tos"}}

OrganizerSignupHandleSignUp(invalid) ==
  /\ pc = "ready" /\ route = "/organizer-signup" /\ ~isLoading /\ CanIssue
  /\ IF invalid # {}
     THEN /\ errors' = invalid
          /\ lastOp' = Op("OrganizerSignup.submit", "none", Null, Null, "na", NoReq, "none")
          /\ UNCHANGED <<isLoading, inflight, netUsed>>
     ELSE /\ errors' = {}
          /\ isLoading' = TRUE
          /\ inflight' = Add(inflight, Req("OrganizerSignup", "na"))
          /\ netUsed' = TRUE
          /\ lastOp' = Op("OrganizerSignup.submit", "none", Null, Null, "na",
                          <<"api", ApiRequestAuth>>, "none")
  /\ UNCHANGED <<pc, localStorage, sessionStorage, user, token, loading, defaultAuth,
                 route, loginTok>>

OrganizerSignupResponse(r, resp) ==
  /\ r \in BagToSet(inflight) /\ r.page = "OrganizerSignup"
  /\ UNCHANGED <<pc, user, token, loading, defaultAuth, netUsed>>
  /\ loginTok' = IF resp.kind = "401" THEN Null ELSE loginTok
  /\ localStorage' = ResponseInterceptor(resp.kind, localStorage)
  /\ IF resp.kind = "success"
     THEN /\ sessionStorage' = [token |-> setItem(resp.token), user |-> setItemJSON(resp.user)]
          /\ Settle("/organizer-portal", Remove(inflight, r), Busy(r), errors)
          /\ lastOp' = Op("OrganizerSignup.response", "signedin", resp.token, resp.user,
                          "na", NoReq, "success")
     ELSE /\ sessionStorage' = ResponseInterceptor(resp.kind, sessionStorage)
          /\ Settle(route, Remove(inflight, r), Busy(r),
                    Errs(r, CASE resp.kind \in {"400dup", "422"} -> {"email"}
                              [] resp.kind = "422empty" -> {}
                              [] OTHER -> {"general"}))
          /\ lastOp' = Op("OrganizerSignup.response", resp.kind, resp.token, resp.user,
                          "na", NoReq, IF resp.kind = "422empty" THEN "none" ELSE "error")

(***************************************************************************)
(* The session specification                                               *)
(***************************************************************************)
InitSession ==
  /\ pc = "boot"
  /\ localStorage = EmptyStorage
  /\ sessionStorage = EmptyStorage
  /\ user = Null
  /\ token = Null
  /\ loading = TRUE
  /\ defaultAuth = NoHeader
  /\ route = "/"
  /\ isLoading = FALSE
  /\ errors = {}
  /\ inflight = EmptyBag
  /\ netUsed = FALSE
  /\ loginTok = Null
  /\ lastOp = Op("start", "none", Null, Null, "na", NoReq, "none")

(***************************************************************************)
(* Admin review views                                                      *)
(***************************************************************************)
EventIds == 1..MaxEvents
Statuses == {"pending", "approved", "rejected"}
(* Feedback texts: the empty text, blank text, and text with and without   *)
(* surrounding blanks.                                                     *)
Feedbacks == {<<>>, <<" ">>, <<"x">>, <<" ", "x", " ">>}

RECURSIVE trimStart(_)
trimStart(s) == IF s # <<>> /\ Head(s) = " " THEN trimStart(Tail(s)) ELSE s
RECURSIVE trimEnd(_)
trimEnd(s) == IF s # <<>> /\ s[Len(s)] = " " THEN trimEnd(SubSeq(s, 1, Len(s) - 1)) ELSE s
(* String.prototype.trim *)
trim(s) == trimEnd(trimStart(s))

(* window.prompt: null when cancelled, else the text entered. *)
PromptResults == {[cancelled |-> TRUE, text |-> <<>>]}
                   \cup [cancelled : {FALSE}, text : {<<>>, <<" ">>, <<"x">>}]
NoPrompt == [cancelled |-> FALSE, text |-> <<>>]     \* feedback = '' (no prompt shown)

RECURSIVE Ascending(_)
Ascending(S) ==
  IF S = {} THEN <<>>
  ELSE LET m == CHOOSE x \in S : \A y \in S : x <= y
       IN <<m>> \o Ascending(S \ {m})
(* The lists GET /admin/events/pending can answer with. *)
PendingLists == {Ascending(S) : S \in SUBSET EventIds}

Contains(list, e) == \E i \in 1..Len(list) : list[i] = e
Without(list, e) == SelectSeq(list, LAMBDA x : x # e)

ReviewResponses == {"success", "failure", "error"}

(* Requests of the admin views awaiting their answer. *)
InFlightReview ==
  BagCardinality(quick) + BagCardinality(listFetch) + BagCardinality(review)
    + BagCardinality(detailFetch)

Rv(name, eid, status, held, prompted, put, toast) ==
  [op |-> name, id |-> eid, status |-> status, held |-> held,
   cancelled |-> prompted.cancelled, fb |-> prompted.text, put |-> put, toast |-> toast]
NoPut == <<>>

DeadQuick(b) ==
  LET S == {[q EXCEPT !.live = FALSE, !.snapshot = <<>>] : q \in BagToSet(b)}
  IN [d \in S |-> BagCardinality([q \in {x \in BagToSet(b) : x.id = d.id} |-> b[q]])]
DeadReview(b) == Dead(b)

(* Mounting a view runs its effect (the first fetch); unmounting it drops  *)
(* its state, and answers to its fetches no longer change anything.        *)
MountPending ==
  /\ events' = <<>> /\ peLoading' = TRUE /\ peError' = FALSE
  /\ listFetch' = SetToBag({[live |-> TRUE]})
UnmountPending ==
  /\ events' = <<>> /\ peLoading' = TRUE /\ peError' = FALSE
  /\ listFetch' = EmptyBag
  /\ quick' = DeadQuick(quick)
MountDetail(i) ==
  /\ id' = i /\ event' = Null /\ feedback' = <<>> /\ evLoading' = TRUE
  /\ evError' = FALSE /\ submitting' = FALSE
  /\ detailFetch' = SetToBag({[id |-> i, live |-> TRUE]})
UnmountDetail ==
  /\ id' = 0 /\ event' = Null /\ feedback' = <<>> /\ evLoading' = TRUE
  /\ evError' = FALSE /\ submitting' = FALSE
  /\ detailFetch' = EmptyBag

pendingState == <<events, peLoading, peError, listFetch>>
detailState == <<id, event, feedback, evLoading, evError, submitting, detailFetch>>

(* <Link to={`/admin/events/${event._id}`}>, or the location typed. *)
OpenDetail(i) ==
  /\ adminView = "pending"
  /\ adminView' = "detail"
  /\ UnmountPending
  /\ MountDetail(i)
  /\ lastRv' = Rv("OpenDetail", i, "none", "na", NoPrompt, NoPut, "none")
  /\ UNCHANGED review

(* "Back to Pending Events", the sidebar link or the browser's back. *)
BackToPending ==
  /\ adminView = "detail"
  /\ adminView' = "pending"
  /\ UnmountDetail
  /\ review' = DeadReview(review)
  /\ MountPending
  /\ lastRv' = Rv("BackToPending", 0, "none", "na", NoPrompt, NoPut, "none")
  /\ UNCHANGED quick

(* --- src/unnamed/part_002: PendingEvents ------------------------------ *)
(* The Refresh button. *)
fetchPendingEvents ==
  /\ adminView = "pending"
  /\ InFlightReview < MaxQuick
  /\ peLoading' = TRUE
  /\ peError' = FALSE
  /\ listFetch' = Add(listFetch, [live |-> TRUE])
  /\ lastRv' = Rv("fetchPendingEvents", 0, "none", "na", NoPrompt, NoPut, "none")
  /\ UNCHANGED <<adminView, events, quick, detailState, review>>

fetchPendingEventsResponse(f, resp, list) ==
  /\ f \in BagToSet(listFetch)
  /\ listFetch' = Remove(listFetch, f)
  /\ peLoading' = FALSE
  /\ IF resp = "success"
     THEN /\ events' = list
          /\ peError' = peError
          /\ lastRv' = Rv("fetchPendingEvents.response", 0, "none", "na", NoPrompt, NoPut, "none")
     ELSE /\ events' = events
          /\ peError' = TRUE
          /\ lastRv' = Rv("fetchPendingEvents.response", 0, "none", "na", NoPrompt, NoPut, "error")
  /\ UNCHANGED <<adminView, quick, detailState, review>>

(* status === 'rejected' && !feedback *)
QuickActionRefuses(status, prompted) ==
  status = "rejected" /\ (prompted.cancelled \/ prompted.text = <<>>)

handleQuickAction(eventId, status, prompted) ==
  /\ adminView = "pending" /\ ~peLoading
  /\ Contains(events, eventId)
  /\ InFlightReview < MaxQuick
  /\ status = "approved" => prompted = NoPrompt
  /\ IF QuickActionRefuses(status, prompted)
     THEN /\ quick' = quick
          /\ lastRv' = Rv("handleQuickAction", eventId, status, "pending", prompted, NoPut, "error")
     ELSE /\ quick' = Add(quick, [id |-> eventId, snapshot |-> events, live |-> TRUE])
          /\ lastRv' = Rv("handleQuickAction", eventId, status, "pending", prompted,
                          <<eventId, status, prompted.text>>, "none")
  /\ UNCHANGED <<adminView, pendingState, detailState, review>>

handleQuickActionResponse_FilterOnFailure(q, resp) ==
  /\ q \in BagToSet(quick)
  /\ quick' = Remove(quick, q)
  /\ events' = IF q.live THEN Without(q.snapshot, q.id) ELSE events
  /\ IF resp = "success"
     THEN /\ lastRv' = Rv("handleQuickAction.response", q.id, "success", "na", NoPrompt, NoPut, "success")
          /\ accepted' = accepted \cup {q.id}
     ELSE /\ lastRv' = Rv("handleQuickAction.response", q.id, "failed", "na", NoPrompt, NoPut, "error")
          /\ accepted' = accepted
  /\ UNCHANGED <<adminView, peLoading, peError, listFetch, detailState, review>>

(* setEvents(events.filter(...)) filters the list the handler closed over  *)
(* when it was clicked, not the list at the time of the answer.            *)
handleQuickActionResponse(q, resp) ==
  /\ q \in BagToSet(quick)
  /\ quick' = Remove(quick, q)
  /\ IF resp = "success"
     THEN /\ events' = IF q.live THEN Without(q.snapshot, q.id) ELSE events
          /\ lastRv' = Rv("handleQuickAction.response", q.id, "success", "na", NoPrompt, NoPut, "success")
          /\ accepted' = accepted \cup {q.id}
     ELSE /\ events' = events
          /\ lastRv' = Rv("handleQuickAction.response", q.id, "failed", "na", NoPrompt, NoPut, "error")
          /\ accepted' = accepted
  /\ UNCHANGED <<adminView, peLoading, peError, listFetch, detailState, review>>

(* --- src/client/src/components/admin/EventApproval.tsx ---------------- *)
fetchEventDetailsResponse(f, resp, status, adminFeedback) ==
  /\ f \in BagToSet(detailFetch)
  /\ detailFetch' = Remove(detailFetch, f)
  /\ evLoading' = FALSE
  /\ IF resp = "success"
     THEN /\ event' = status
          /\ feedback' = adminFeedback
          /\ evError' = evError
          /\ lastRv' = Rv("fetchEventDetails.response", f.id, "none", status, NoPrompt, NoPut, "none")
     ELSE /\ evError' = TRUE
          /\ UNCHANGED <<event, feedback>>
          /\ lastRv' = Rv("fetchEventDetails.response", f.id, "none", "na", NoPrompt, NoPut, "error")
  /\ UNCHANGED <<adminView, pendingState, quick, id, submitting, review>>

(* The review card is rendered once the event is loaded. *)
DetailRendered == adminView = "detail" /\ ~evLoading /\ ~evError /\ event # Null

setFeedback(text) ==
  /\ DetailRendered
  /\ text # feedback
  /\ feedback' = text
  /\ lastRv' = Rv("setFeedback", id, "none", event, NoPrompt, NoPut, "none")
  /\ UNCHANGED <<adminView, pendingState, quick, id, event, evLoading, evError, submitting,
                 detailFetch, review>>

ReviewRefuses_Never(status, text) == FALSE

(* status === 'rejected' && !feedback.trim() *)
ReviewRefuses(status, text) == status = "rejected" /\ trim(text) = <<>>

handleReview(status) ==
  /\ DetailRendered /\ ~submitting
  /\ InFlightReview < MaxQuick
  /\ IF ReviewRefuses(status, feedback)
     THEN /\ UNCHANGED <<submitting, review>>
          /\ lastRv' = Rv("handleReview", id, status, event,
                          [cancelled |-> FALSE, text |-> feedback], NoPut, "error")
     ELSE /\ submitting' = TRUE
          /\ review' = Add(review, [id |-> id, live |-> TRUE])
          /\ lastRv' = Rv("handleReview", id, status, event,
                          [cancelled |-> FALSE, text |-> feedback],
                          <<id, status, feedback>>, "none")
  /\ UNCHANGED <<adminView, pendingState, quick, id, event, feedback, evLoading, evError,
                 detailFetch>>

handleReviewResponse(r, resp) ==
  /\ r \in BagToSet(review)
  /\ IF resp = "success"
     THEN \* toast.success; navigate('/admin/events/pending')
          /\ adminView' = "pending"
          /\ IF adminView = "detail"
             THEN /\ UnmountDetail /\ MountPending
                  /\ review' = DeadReview(Remove(review, r))
                  /\ quick' = quick
             ELSE /\ review' = Remove(review, r)
                  /\ UNCHANGED <<pendingState, quick, detailState>>
          /\ lastRv' = Rv("handleReview.response", r.id, "success", "na", NoPrompt, NoPut, "success")
          /\ accepted' = accepted \cup {r.id}
     ELSE /\ review' = Remove(review, r)
          /\ submitting' = IF r.live THEN FALSE ELSE submitting
          /\ lastRv' = Rv("handleReview.response", r.id, "failed", "na", NoPrompt, NoPut, "error")
          /\ accepted' = accepted
          /\ UNCHANGED <<adminView, pendingState, quick, id, event, feedback, evLoading,
                         evError, detailFetch>>

InitReview ==
  /\ adminView = "pending"
  /\ events = <<>> /\ peLoading = TRUE /\ peError = FALSE
  /\ quick = EmptyBag
  /\ listFetch = SetToBag({[live |-> TRUE]})
  /\ id = 0 /\ event = Null /\ feedback = <<>> /\ evLoading = TRUE
  /\ evError = FALSE /\ submitting = FALSE
  /\ review = EmptyBag /\ detailFetch = EmptyBag
  /\ lastRv = Rv("start", 0, "none", "na", NoPrompt, NoPut, "none")
  /\ accepted = {}

(***************************************************************************)
(* OrganizerContext and EventContext                                       *)
(*                                                                         *)
(* Both providers call the global `axios`, not the instance `api`: their   *)
(* requests pass through no interceptor and carry no instance default, and *)
(* their answers never touch the session. The session specification        *)
(* therefore leaves the context state alone.                               *)
(***************************************************************************)
CtxOp(name, req) == [op |-> name, req |-> req]

CtxReq(kind, eid, snapshot) == [kind |-> kind, id |-> eid, snapshot |-> snapshot]

(* The requests the calls `names` issue for session user u. *)
Issued(u, names) ==
  IF Truthy(u) THEN SetToBag({CtxReq(n, 0, <<>>) : n \in names}) ELSE EmptyBag

(* --- src/client/src/contexts/OrganizerContext.tsx: fetchOrganizer ----- *)
fetchOrganizer(u) ==
  IF ~Truthy(u)
  THEN /\ organizer' = Null
       /\ orgLoading' = FALSE
       /\ orgError' = orgError
  ELSE /\ orgLoading' = TRUE
       /\ orgError' = FALSE
       /\ organizer' = organizer

fetchOrganizerResponse(r, resp) ==
  /\ r \in BagToSet(ctxInflight) /\ r.kind = "fetchOrganizer"
  /\ ctxInflight' = Remove(ctxInflight, r)
  /\ IF resp = "success"
     THEN organizer' = "profile" /\ orgError' = orgError
     ELSE organizer' = Null /\ orgError' = TRUE
  /\ orgLoading' = FALSE
  /\ lastCtx' = CtxOp("response", NoReq)
  /\ UNCHANGED <<ctxEvents, ctxLoading, ctxError>>

(* --- src/client/src/contexts/EventContext.tsx ------------------------- *)
fetchEvents(u) ==
  IF ~Truthy(u)
  THEN /\ ctxEvents' = <<>>
       /\ ctxLoading' = FALSE
       /\ ctxError' = ctxError
  ELSE /\ ctxLoading' = TRUE
       /\ ctxError' = FALSE
       /\ ctxEvents' = ctxEvents

fetchEventsResponse(r, resp, list) ==
  /\ r \in BagToSet(ctxInflight) /\ r.kind = "fetchEvents"
  /\ ctxInflight' = Remove(ctxInflight, r)
  /\ IF resp = "success"
     THEN ctxEvents' = list /\ ctxError' = ctxError
     ELSE ctxEvents' = <<>> /\ ctxError' = TRUE
  /\ ctxLoading' = FALSE
  /\ lastCtx' = CtxOp("response", NoReq)
  /\ UNCHANGED <<organizer, orgLoading, orgError>>

(* The effects `useEffect(() => { fetch...() }, [user])` of both providers, *)
(* run after a render in which `user` is u.                                 *)
UserEffects(u) ==
  /\ fetchOrganizer(u)
  /\ fetchEvents(u)
  /\ ctxInflight' = ctxInflight (+) Issued(u, {"fetchOrganizer", "fetchEvents"})
  /\ lastCtx' = CtxOp("useEffect", IF Truthy(u) THEN <<"axios", PlainRequestAuth>> ELSE NoReq)

refreshOrganizer ==
  /\ pc = "ready"
  /\ fetchOrganizer(user)
  /\ ctxInflight' = ctxInflight (+) Issued(user, {"fetchOrganizer"})
  /\ lastCtx' = CtxOp("refreshOrganizer",
                      IF Truthy(user) THEN <<"axios", PlainRequestAuth>> ELSE NoReq)
  /\ UNCHANGED <<ctxEvents, ctxLoading, ctxError>>

refreshEvents ==
  /\ pc = "ready"
  /\ fetchEvents(user)
  /\ ctxInflight' = ctxInflight (+) Issued(user, {"fetchEvents"})
  /\ lastCtx' = CtxOp("refreshEvents",
                      IF Truthy(user) THEN <<"axios", PlainRequestAuth>> ELSE NoReq)
  /\ UNCHANGED <<organizer, orgLoading, orgError>>

(* createEvent, updateEvent and deleteEvent up to their await: the list    *)
(* they will rewrite is the `events` of the render they were called from.  *)
Mutate(kind, eid) ==
  /\ pc = "ready"
  /\ ctxLoading' = TRUE
  /\ ctxError' = FALSE
  /\ ctxInflight' = Add(ctxInflight, CtxReq(kind, eid, ctxEvents))
  /\ lastCtx' = CtxOp(kind, <<"axios", PlainRequestAuth>>)
  /\ UNCHANGED <<organizer, orgLoading, orgError, ctxEvents>>

(* ... and from the answer on: rewritten is the list computed from the     *)
(* snapshot on success, nothing on failure (the error is rethrown).        *)
Mutated_RewriteAlways(r, resp, rewritten) ==
  /\ r \in BagToSet(ctxInflight)
  /\ ctxInflight' = Remove(ctxInflight, r)
  /\ IF resp = "success"
     THEN ctxEvents' = rewritten /\ ctxError' = ctxError
     ELSE ctxEvents' = rewritten /\ ctxError' = TRUE
  /\ ctxLoading' = FALSE
  /\ lastCtx' = CtxOp(IF resp = "success" THEN "response" ELSE "rethrown", NoReq)
  /\ UNCHANGED <<organizer, orgLoading, orgError>>

Mutated(r, resp, rewritten) ==
  /\ r \in BagToSet(ctxInflight)
  /\ ctxInflight' = Remove(ctxInflight, r)
  /\ IF resp = "success"
     THEN ctxEvents' = rewritten /\ ctxError' = ctxError
     ELSE ctxEvents' = ctxEvents /\ ctxError' = TRUE
  /\ ctxLoading' = FALSE
  /\ lastCtx' = CtxOp(IF resp = "success" THEN "response" ELSE "rethrown", NoReq)
  /\ UNCHANGED <<organizer, orgLoading, orgError>>

createEvent == Mutate("createEvent", 0)

(* setEvents([...events, response.data]) *)
createEventResponse(r, resp, data) ==
  /\ r.kind = "createEvent"
  /\ Mutated(r, resp, Append(r.snapshot, data))

updateEvent(eid) == Mutate("updateEvent", eid)

(* setEvents(events.map(event => event._id === id ? response.data : event)) *)
updateEventResponse(r, resp, data) ==
  /\ r.kind = "updateEvent"
  /\ Mutated(r, resp, [i \in 1..Len(r.snapshot) |->
                         IF r.snapshot[i] = r.id THEN data ELSE r.snapshot[i]])

deleteEvent(eid) == Mutate("deleteEvent", eid)

(* setEvents(events.filter(event => event._id !== id)) *)
deleteEventResponse(r, resp) ==
  /\ r.kind = "deleteEvent"
  /\ Mutated(r, resp, Without(r.snapshot, r.id))

CtxEventIds == 1..MaxCtxEvents
(* The lists GET /api/events/organizer can answer with. *)
OrganizerEventLists == {Ascending(S) : S \in SUBSET CtxEventIds}

InitCtx ==
  /\ organizer = Null /\ orgLoading = TRUE /\ orgError = FALSE
  /\ ctxEvents = <<>> /\ ctxLoading = TRUE /\ ctxError = FALSE
  /\ ctxInflight = EmptyBag
  /\ lastCtx = CtxOp("start", NoReq)

(***************************************************************************)
(* src/unnamed/part_002: EventsList, the public catalog                    *)
(***************************************************************************)
(* Texts are sequences of characters. *)
LowerChar(c) ==
  CASE c = "A" -> "a" [] c = "F" -> "f" [] c = "J" -> "j"
    [] c = "K" -> "k" [] c = "R" -> "r" [] c = "X" -> "x"
    [] OTHER -> c

(* String.prototype.toLowerCase *)
toLowerCase(s) == [i \in 1..Len(s) |-> LowerChar(s[i])]

(* String.prototype.includes *)
includes(s, t) ==
  IF Len(t) > Len(s) THEN FALSE
  ELSE \E k \in 0..(Len(s) - Len(t)) : SubSeq(s, k + 1, k + Len(t)) = t

CatalogIds == 1..MaxCatalog

(* The events the server can hold. `organizer` is <<>> (null) or <<name>>. *)
CatalogEntry(i) ==
  CASE i = 1 -> [title |-> <<"J", "a", "z", "z">>, description |-> <<"f", "u", "n">>,
                 location |-> <<"z", "o", "o">>, category |-> "music",
                 organizer |-> << <<"A", "l">> >>]
    [] i = 2 -> [title |-> <<"F", "o", "o", "d">>, description |-> <<"j", "a", "m">>,
                 location |-> <<"K">>, category |-> "culinary", organizer |-> <<>>]
    [] i = 3 -> [title |-> <<"R", "u", "n">>, description |-> <<>>,
                 location |-> <<"J", "A">>, category |-> "sports",
                 organizer |-> << <<"a", "l">> >>]
    [] OTHER -> [title |-> <<"X">>, description |-> <<>>, location |-> <<>>,
                 category |-> "music", organizer |-> <<>>]

(* An event document as GET /events carries it. *)
EventDoc(i, flags) ==
  [id |-> i, title |-> CatalogEntry(i).title, description |-> CatalogEntry(i).description,
   location |-> CatalogEntry(i).location, category |-> CatalogEntry(i).category,
   organizer |-> CatalogEntry(i).organizer,
   approvalStatus |-> flags.approvalStatus, published |-> flags.published]

(* What the server holds when it answers: each event's workflow state and  *)
(* publication flag.                                                       *)
EventFlags ==
  {[approvalStatus |-> "approved", published |-> TRUE],
   [approvalStatus |-> "approved", published |-> FALSE],
   [approvalStatus |-> "pending", published |-> TRUE],
   [approvalStatus |-> "rejected", published |-> TRUE]}

Databases == [CatalogIds -> EventFlags]

GetEvents_PublishedOnly(db) ==
  LET ids == Ascending({i \in CatalogIds : db[i].published})
  IN [k \in 1..Len(ids) |-> EventDoc(ids[k], db[ids[k]])]

(* GET /events. The server is not part of the sources; by the              *)
(* specification it answers with the events that are approved and          *)
(* published.                                                              *)
GetEvents(db) ==
  LET ids == Ascending({i \in CatalogIds :
                          db[i].approvalStatus = "approved" /\ db[i].published})
  IN [k \in 1..Len(ids) |-> EventDoc(ids[k], db[ids[k]])]

(* Published events the answer leaves out because they are not approved. *)
Withheld(db) == {i \in CatalogIds : db[i].published /\ db[i].approvalStatus # "approved"}

SearchTerms == {<<>>, <<"j", "a">>, <<"J", "A">>, <<"o", "o">>, <<"a", "l">>, <<"q">>}
Categories == {"all", "music", "culinary", "other"}

Cat(name, toast, withheld) == [op |-> name, toast |-> toast, withheld |-> withheld]

filteredEvents_CaseSensitive(list, term, selected) ==
  SelectSeq(list, LAMBDA e :
    LET matchesSearch ==
          \/ includes(e.title, term)
          \/ includes(e.description, term)
          \/ includes(e.location, term)
          \/ (e.organizer # <<>> /\ includes(e.organizer[1], term))
        matchesCategory == selected = "all" \/ e.category = selected
    IN matchesSearch /\ matchesCategory)

(* const filteredEvents = events.filter(...) *)
filteredEvents(list, term, selected) ==
  SelectSeq(list, LAMBDA e :
    LET matchesSearch ==
          \/ includes(toLowerCase(e.title), toLowerCase(term))
          \/ includes(toLowerCase(e.description), toLowerCase(term))
          \/ includes(toLowerCase(e.location), toLowerCase(term))
          \/ (e.organizer # <<>> /\ includes(toLowerCase(e.organizer[1]), toLowerCase(term)))
        matchesCategory == selected = "all" \/ e.category = selected
    IN matchesSearch /\ matchesCategory)

(* The cards the catalog renders. *)
Shown == filteredEvents(catEvents, searchTerm, selectedCategory)

(* The route /events is entered: EventsList mounts and its effect fetches. *)
OpenCatalog ==
  /\ catView = "away"
  /\ BagCardinality(catFetch) < MaxQuick
  /\ catView' = "mounted"
  /\ catEvents' = <<>> /\ catLoading' = TRUE /\ catError' = FALSE
  /\ searchTerm' = <<>> /\ selectedCategory' = "all"
  /\ catFetch' = Add(catFetch, [live |-> TRUE])
  /\ lastCat' = Cat("fetchApprovedEvents", "none", {})

LeaveCatalog ==
  /\ catView = "mounted"
  /\ catView' = "away"
  /\ catEvents' = <<>> /\ catLoading' = TRUE /\ catError' = FALSE
  /\ searchTerm' = <<>> /\ selectedCategory' = "all"
  /\ catFetch' = Dead(catFetch)
  /\ lastCat' = Cat("LeaveCatalog", "none", {})

fetchApprovedEventsResponse(f, resp, db) ==
  /\ f \in BagToSet(catFetch)
  /\ catFetch' = Remove(catFetch, f)
  /\ IF f.live
     THEN /\ catLoading' = FALSE
          /\ IF resp = "success"
             THEN /\ catEvents' = GetEvents(db)
                  /\ catError' = (Len(GetEvents(db)) = 0)
             ELSE /\ catEvents' = catEvents
                  /\ catError' = TRUE
     ELSE UNCHANGED <<catEvents, catLoading, catError>>
  /\ lastCat' = IF resp = "success"
                THEN Cat("fetchApprovedEvents.response", "none", Withheld(db))
                ELSE Cat("fetchApprovedEvents.response", "error", {})
  /\ UNCHANGED <<catView, searchTerm, selectedCategory>>

setSearchTerm(text) ==
  /\ catView = "mounted"
  /\ text # searchTerm
  /\ searchTerm' = text
  /\ lastCat' = Cat("setSearchTerm", "none", {})
  /\ UNCHANGED <<catView, catEvents, catLoading, catError, selectedCategory, catFetch>>

setSelectedCategory(selected) ==
  /\ catView = "mounted"
  /\ selected # selectedCategory
  /\ selectedCategory' = selected
  /\ lastCat' = Cat("setSelectedCategory", "none", {})
  /\ UNCHANGED <<catView, catEvents, catLoading, catError, searchTerm, catFetch>>

InitCatalog ==
  /\ catView = "away"
  /\ catEvents = <<>> /\ catLoading = TRUE /\ catError = FALSE
  /\ searchTerm = <<>> /\ selectedCategory = "all"
  /\ catFetch = EmptyBag
  /\ lastCat = Cat("start", "none", {})

(***************************************************************************)
(* src/client/src/components/organizer/CreateEvent.tsx                     *)
(***************************************************************************)
(* interface FormErrors: the slots of the `errors` object. *)
FieldSlots == {"title", "date", "time", "location", "category", "description"}
NoErrors == <<>>       \* the object {}

(* obj[key] = value *)
Assign(obj, key, value) ==
  [k \in DOMAIN obj \cup {key} |-> IF k = key THEN value ELSE obj[k]]

(* What the inputs of the form can be given. *)
DetailValues(field) ==
  CASE field = "title" -> {<<>>, <<" ">>, <<"x">>}
    [] field \in {"location", "description"} -> {<<>>, <<"x">>}
    [] field = "date" -> {Undefined, "2030-01-01"}
    [] field = "time" -> {"", "09:00"}
    [] field = "category" -> {"", "music"}
TierValues(field) ==
  CASE field = "name" -> {"", "General Admission"}
    [] field = "price" -> {"", "10"}
    [] field = "quantity" -> {"", "0", "100"}

(* Number(text) for the texts a number input can hold. *)
Number(text) == CASE text = "0" -> 0 [] text = "10" -> 10 [] text = "100" -> 100 [] OTHER -> 0

(* POST /public/events answers: success, success = false, a rejection      *)
(* carrying an `errors` list, or a rejection / network failure without.    *)
PostResponses == {"success", "failure", "invalid", "error"}
TicketParams == {"tickets", "tickets[0].price"}      \* params that start with 'tickets'
ErrorItem(param) == [param |-> param, msg |-> param]
ErrorLists ==
  {<<>>, <<ErrorItem("title")>>, <<ErrorItem("tickets[0].price")>>, <<ErrorItem("venue")>>,
   <<ErrorItem("date"), ErrorItem("venue")>>, <<ErrorItem("venue"), ErrorItem("organizer")>>}

Form(name, toast, sent, tickets, list) ==
  [op |-> name, toast |-> toast, sent |-> sent, tickets |-> tickets, list |-> list]

uploadState == <<isUploading, eventImages, imagePost>>

(* useState initial values *)
FreshForm ==
  /\ title' = <<>> /\ date' = Undefined /\ time' = "" /\ location' = <<>>
  /\ category' = "" /\ description' = <<>>
  /\ ticketTypes' = <<[name |-> "General Admission", price |-> "", quantity |-> "100"]>>
  /\ isSubmitting' = FALSE /\ formErrors' = NoErrors
  /\ isUploading' = FALSE /\ eventImages' = <<>>

(* The organizer opens /organizer-portal/events/create. *)
OpenForm ==
  /\ formView = "away"
  /\ formView' = "mounted"
  /\ FreshForm
  /\ lastForm' = Form("OpenForm", "none", FALSE, <<>>, <<>>)
  /\ UNCHANGED <<formPost, imagePost>>

(* Cancel, or any other navigation away: the component unmounts. The       *)
(* answer to a request it left in flight finds no state to change, and the *)
(* request is followed no further.                                         *)
LeaveForm ==
  /\ formView = "mounted"
  /\ formView' = "away"
  /\ FreshForm
  /\ formPost' = EmptyBag /\ imagePost' = EmptyBag
  /\ lastForm' = Form("LeaveForm", "none", FALSE, <<>>, <<>>)

(* onChange of the detail inputs: setTitle, setDate, setTime, setLocation, *)
(* setCategory, setDescription.                                            *)
setDetail(field, value) ==
  /\ formView = "mounted"
  /\ CASE field = "title" ->
            /\ value # title /\ title' = value
            /\ UNCHANGED <<date, time, location, category, description>>
       [] field = "date" ->
            /\ value # date /\ date' = value
            /\ UNCHANGED <<title, time, location, category, description>>
       [] field = "time" ->
            /\ value # time /\ time' = value
            /\ UNCHANGED <<title, date, location, category, description>>
       [] field = "location" ->
            /\ value # location /\ location' = value
            /\ UNCHANGED <<title, date, time, category, description>>
       [] field = "category" ->
            /\ value # category /\ category' = value
            /\ UNCHANGED <<title, date, time, location, description>>
       [] field = "description" ->
            /\ value # description /\ description' = value
            /\ UNCHANGED <<title, date, time, location, category>>
  /\ lastForm' = Form("setDetail", "none", FALSE, <<>>, <<>>)
  /\ UNCHANGED <<formView, ticketTypes, isSubmitting, formErrors, formPost, uploadState>>

handleAddTicketType ==
  /\ formView = "mounted"
  /\ Len(ticketTypes) < MaxTiers
  /\ ticketTypes' = Append(ticketTypes, [name |-> "", price |-> "", quantity |-> ""])
  /\ lastForm' = Form("handleAddTicketType", "none", FALSE, <<>>, <<>>)
  /\ UNCHANGED <<formView, title, date, time, location, category, description,
                 isSubmitting, formErrors, formPost, uploadState>>

(* The remove button is rendered only while ticketTypes.length > 1. *)
handleRemoveTicketType(index) ==
  /\ formView = "mounted"
  /\ Len(ticketTypes) > 1
  /\ index \in 1..Len(ticketTypes)
  /\ ticketTypes' = [k \in 1..(Len(ticketTypes) - 1) |->
                       IF k < index THEN ticketTypes[k] ELSE ticketTypes[k + 1]]
  /\ lastForm' = Form("handleRemoveTicketType", "none", FALSE, <<>>, <<>>)
  /\ UNCHANGED <<formView, title, date, time, location, category, description,
                 isSubmitting, formErrors, formPost, uploadState>>

handleTicketChange(index, field, value) ==
  /\ formView = "mounted"
  /\ index \in 1..Len(ticketTypes)
  /\ value # ticketTypes[index][field]
  /\ ticketTypes' = [ticketTypes EXCEPT ![index][field] = value]
  /\ lastForm' = Form("handleTicketChange", "none", FALSE, <<>>, <<>>)
  /\ UNCHANGED <<formView, title, date, time, location, category, description,
                 isSubmitting, formErrors, formPost, uploadState>>

(* ticket.name && ticket.price && ticket.quantity *)
TicketComplete(ticket) == ticket.name # "" /\ ticket.price # "" /\ ticket.quantity # ""

validateForm_NoDate ==
  LET failing ==
        {slot \in FieldSlots \cup {"tickets"} :
           \/ slot = "title" /\ trim(title) = <<>>
           \/ slot = "time" /\ time = ""
           \/ slot = "location" /\ trim(location) = <<>>
           \/ slot = "category" /\ category = ""
           \/ slot = "description" /\ trim(description) = <<>>
           \/ slot = "tickets" /\ ~\E k \in 1..Len(ticketTypes) : TicketComplete(ticketTypes[k])}
  IN [slot \in failing |-> "required"]

(* validateForm: the object it hands to setErrors; isValid is that the     *)
(* object has no slot.                                                     *)
validateForm ==
  LET failing ==
        {slot \in FieldSlots \cup {"tickets"} :
           \/ slot = "title" /\ trim(title) = <<>>
           \/ slot = "date" /\ ~Truthy(date)
           \/ slot = "time" /\ time = ""
           \/ slot = "location" /\ trim(location) = <<>>
           \/ slot = "category" /\ category = ""
           \/ slot = "description" /\ trim(description) = <<>>
           \/ slot = "tickets" /\ ~\E k \in 1..Len(ticketTypes) : TicketComplete(ticketTypes[k])}
  IN [slot \in failing |-> "required"]

eventTickets_All(tiers) == tiers

(* eventData.tickets *)
eventTickets(tiers) == SelectSeq(tiers, TicketComplete)

(* onSubmit of the form. The submit button is disabled while isSubmitting   *)
(* or isUploading.                                                         *)
handleSubmit ==
  /\ formView = "mounted"
  /\ ~isSubmitting /\ ~isUploading
  /\ IF validateForm # NoErrors
     THEN /\ formErrors' = validateForm
          /\ lastForm' = Form("handleSubmit", "error", FALSE, <<>>, <<>>)
          /\ UNCHANGED <<isSubmitting, formPost>>
     ELSE /\ formErrors' = NoErrors
          /\ isSubmitting' = TRUE
          /\ formPost' = Add(formPost, [errors |-> formErrors])
          /\ lastForm' = Form("handleSubmit", "none", TRUE, eventTickets(ticketTypes), <<>>)
  /\ UNCHANGED <<formView, title, date, time, location, category, description, ticketTypes,
                 uploadState>>

(* error.response.data.errors.forEach(...) building backendErrors; `errors`*)
(* is the state of the render whose handleSubmit is running.               *)
RECURSIVE backendErrors(_, _)
backendErrors(list, closure) ==
  IF list = <<>> THEN NoErrors
  ELSE LET err == list[Len(list)]
           before == backendErrors(SubSeq(list, 1, Len(list) - 1), closure)
       IN IF err.param \in TicketParams THEN Assign(before, "tickets", err.msg)
          ELSE IF err.param \in DOMAIN closure THEN Assign(before, err.param, err.msg)
          ELSE Assign(before, "general", err.msg)

(* The rest of handleSubmit, after `await api.post('/public/events', ...)`. *)
handleSubmitResponse_NoFinally(p, resp, list) ==
  /\ p \in BagToSet(formPost)
  /\ formPost' = Remove(formPost, p)
  /\ IF resp = "success"
     THEN formView' = "away" /\ FreshForm /\ imagePost' = EmptyBag
     ELSE /\ isSubmitting' = (resp = "error")
          /\ formErrors' = IF resp = "invalid" THEN backendErrors(list, p.errors)
                           ELSE [slot \in {"general"} |-> "message"]
          /\ UNCHANGED <<formView, title, date, time, location, category, description,
                         ticketTypes, uploadState>>
  /\ lastForm' = Form("handleSubmit.response", IF resp = "success" THEN "success" ELSE "error",
                      FALSE, <<>>, IF resp = "invalid" THEN list ELSE <<>>)

handleSubmitResponse(p, resp, list) ==
  /\ p \in BagToSet(formPost)
  /\ formPost' = Remove(formPost, p)
  /\ IF resp = "success"
     THEN formView' = "away" /\ FreshForm /\ imagePost' = EmptyBag
     ELSE /\ isSubmitting' = FALSE
          /\ formErrors' = IF resp = "invalid" THEN backendErrors(list, p.errors)
                           ELSE [slot \in {"general"} |-> "message"]
          /\ UNCHANGED <<formView, title, date, time, location, category, description,
                         ticketTypes, uploadState>>
  /\ lastForm' = Form("handleSubmit.response", IF resp = "success" THEN "success" ELSE "error",
                      FALSE, <<>>, IF resp = "invalid" THEN list ELSE <<>>)

(* --- CreateEvent.handleImageUpload ------------------------------------- *)
(* onChange of the file input, which is disabled while isUploading.        *)
handleImageUpload(file) ==
  /\ formView = "mounted"
  /\ ~isUploading
  /\ Len(eventImages) < MaxImages
  /\ IF file = "none"
     THEN UNCHANGED uploadState
     ELSE /\ isUploading' = TRUE
          /\ imagePost' = Add(imagePost, [snapshot |-> eventImages])
          /\ UNCHANGED eventImages
  /\ lastForm' = Form("handleImageUpload", "none", file # "none", <<>>, <<>>)
  /\ UNCHANGED <<formView, title, date, time, location, category, description, ticketTypes,
                 isSubmitting, formErrors, formPost>>

(* setEventImages([...eventImages, response.data.url]) on success; the     *)
(* finally block clears isUploading on every outcome.                      *)
handleImageUploadResponse(u, resp, url) ==
  /\ u \in BagToSet(imagePost)
  /\ imagePost' = Remove(imagePost, u)
  /\ isUploading' = FALSE
  /\ eventImages' = IF resp = "success" THEN Append(u.snapshot, url) ELSE eventImages
  /\ lastForm' = Form("handleImageUpload.response",
                      IF resp = "success" THEN "success" ELSE "error", FALSE, <<>>, <<>>)
  /\ UNCHANGED <<formView, title, date, time, location, category, description, ticketTypes,
                 isSubmitting, formErrors, formPost>>

InitForm ==
  /\ formView = "mounted"
  /\ title = <<>> /\ date = Undefined /\ time = "" /\ location = <<>>
  /\ category = "" /\ description = <<>>
  /\ ticketTypes = <<[name |-> "General Admission", price |-> "", quantity |-> "100"]>>
  /\ isSubmitting = FALSE /\ formErrors = NoErrors
  /\ formPost = EmptyBag
  /\ isUploading = FALSE /\ eventImages = <<>> /\ imagePost = EmptyBag
  /\ lastForm = Form("start", "none", FALSE, <<>>, <<>>)

(* The form with its details filled in and the tickets untouched. *)
InitFilledForm ==
  /\ formView = "mounted"
  /\ title = <<"x">> /\ date = "2030-01-01" /\ time = "09:00" /\ location = <<"x">>
  /\ category = "music" /\ description = <<"x">>
  /\ ticketTypes = <<[name |-> "General Admission", price |-> "", quantity |-> "100"]>>
  /\ isSubmitting = FALSE /\ formErrors = NoErrors
  /\ formPost = EmptyBag
  /\ isUploading = FALSE /\ eventImages = <<>> /\ imagePost = EmptyBag
  /\ lastForm = Form("setDetail", "none", FALSE, <<>>, <<>>)

(***************************************************************************)
(* Specifications                                                          *)
(***************************************************************************)
Init == InitSession /\ InitReview /\ InitCtx /\ InitCatalog /\ InitForm


Next ==
  \/ loadUserFromStorage /\ UNCHANGED <<reviewVars, ctxVars, pageVars>>
  \/ (\E sameTab \in BOOLEAN : Reload(sameTab)) /\ UNCHANGED <<reviewVars, ctxVars, pageVars>>
  \/ (\E path \in Paths : Go(path)) /\ UNCHANGED <<reviewVars, ctxVars, pageVars>>
  \/ logout /\ UNCHANGED <<reviewVars, ctxVars, pageVars>>
  \/ /\ \E e \in EmailInputs, p \in PasswordInputs, rm \in {"yes", "no"} :
          OrganizerLoginHandleLogin(e, p, rm)
     /\ UNCHANGED <<reviewVars, ctxVars, pageVars>>
  \/ /\ \E r \in BagToSet(inflight), resp \in SessionResponses : OrganizerLoginResponse(r, resp)
     /\ UNCHANGED <<reviewVars, ctxVars, pageVars>>
  \/ /\ \E e \in EmailInputs, p \in PasswordInputs : AdminLoginHandleSubmit(e, p)
     /\ UNCHANGED <<reviewVars, ctxVars, pageVars>>
  \/ /\ \E r \in BagToSet(inflight), resp \in SessionResponses : AdminLoginResponse(r, resp)
     /\ UNCHANGED <<reviewVars, ctxVars, pageVars>>
  \/ /\ \E e \in EmailInputs, p \in PasswordInputs, n \in {"empty", "present"}, m \in BOOLEAN :
          AuthFormHandleSubmit(e, p, n, m)
     /\ UNCHANGED <<reviewVars, ctxVars, pageVars>>
  \/ /\ \E r \in BagToSet(inflight), resp \in SessionResponses : AuthFormResponse(r, resp)
     /\ UNCHANGED <<reviewVars, ctxVars, pageVars>>
  \/ /\ \E invalid \in SignupInputs : OrganizerSignupHandleSignUp(invalid)
     /\ UNCHANGED <<reviewVars, ctxVars, pageVars>>
  \/ /\ \E r \in BagToSet(inflight), resp \in SessionResponses : OrganizerSignupResponse(r, resp)
     /\ UNCHANGED <<reviewVars, ctxVars, pageVars>>

Spec == Init /\ [][Next]_vars

(* The role-specific sign-in pages on their own. *)
NextRolePages ==
  \/ loadUserFromStorage /\ UNCHANGED <<reviewVars, ctxVars, pageVars>>
  \/ (\E path \in RolePaths : Go(path)) /\ UNCHANGED <<reviewVars, ctxVars, pageVars>>
  \/ logout /\ UNCHANGED <<reviewVars, ctxVars, pageVars>>
  \/ /\ \E e \in EmailInputs, p \in PasswordInputs, rm \in {"yes", "no"} :
          OrganizerLoginHandleLogin(e, p, rm)
     /\ UNCHANGED <<reviewVars, ctxVars, pageVars>>
  \/ /\ \E r \in BagToSet(inflight), resp \in SessionResponses : OrganizerLoginResponse(r, resp)
     /\ UNCHANGED <<reviewVars, ctxVars, pageVars>>
  \/ /\ \E e \in EmailInputs, p \in PasswordInputs, rm \in {"yes", "no"} :
          DoctorLoginHandleLogin(e, p, rm)
     /\ UNCHANGED <<reviewVars, ctxVars, pageVars>>
  \/ /\ \E r \in BagToSet(inflight), resp \in SessionResponses : DoctorLoginResponse(r, resp)
     /\ UNCHANGED <<reviewVars, ctxVars, pageVars>>
  \/ /\ \E e \in EmailInputs, p \in PasswordInputs : AdminLoginHandleSubmit(e, p)
     /\ UNCHANGED <<reviewVars, ctxVars, pageVars>>
  \/ /\ \E r \in BagToSet(inflight), resp \in SessionResponses : AdminLoginResponse(r, resp)
     /\ UNCHANGED <<reviewVars, ctxVars, pageVars>>

SpecRolePages == Init /\ [][NextRolePages]_vars


NextReview ==
  \/ (\E i \in EventIds : OpenDetail(i)) /\ UNCHANGED <<sessionVars, ctxVars, pageVars, accepted>>
  \/ BackToPending /\ UNCHANGED <<sessionVars, ctxVars, pageVars, accepted>>
  \/ fetchPendingEvents /\ UNCHANGED <<sessionVars, ctxVars, pageVars, accepted>>
  \/ /\ \E f \in BagToSet(listFetch), resp \in ReviewResponses, list \in PendingLists :
          fetchPendingEventsResponse(f, resp, list)
     /\ UNCHANGED <<sessionVars, ctxVars, pageVars, accepted>>
  \/ /\ \E e \in EventIds, st \in {"approved", "rejected"}, pr \in PromptResults \cup {NoPrompt} :
          handleQuickAction(e, st, pr)
     /\ UNCHANGED <<sessionVars, ctxVars, pageVars, accepted>>
  \/ /\ \E q \in BagToSet(quick), resp \in ReviewResponses : handleQuickActionResponse(q, resp)
     /\ UNCHANGED <<sessionVars, ctxVars, pageVars>>
  \/ /\ \E f \in BagToSet(detailFetch), resp \in ReviewResponses, st \in Statuses,
           fb \in Feedbacks : fetchEventDetailsResponse(f, resp, st, fb)
     /\ UNCHANGED <<sessionVars, ctxVars, pageVars, accepted>>
  \/ (\E text \in Feedbacks : setFeedback(text)) /\ UNCHANGED <<sessionVars, ctxVars, pageVars, accepted>>
  \/ /\ \E st \in {"approved", "rejected"} : handleReview(st)
     /\ UNCHANGED <<sessionVars, ctxVars, pageVars, accepted>>
  \/ /\ \E r \in BagToSet(review), resp \in ReviewResponses : handleReviewResponse(r, resp)
     /\ UNCHANGED <<sessionVars, ctxVars, pageVars>>

SpecReview == Init /\ [][NextReview]_vars

(* The session together with the two contexts mounted under AuthProvider:  *)
(* every render that changes `user` runs the contexts' effects.            *)
CtxRoom(n) == BagCardinality(ctxInflight) + 2 * BagCardinality(inflight) + n <= MaxCtx


NextCtx ==
  \/ /\ loadUserFromStorage
     /\ UserEffects(user')
     /\ UNCHANGED <<reviewVars, pageVars>>
  \/ /\ \E sameTab \in BOOLEAN : Reload(sameTab)
     /\ organizer' = Null /\ orgLoading' = TRUE /\ orgError' = FALSE
     /\ ctxEvents' = <<>> /\ ctxLoading' = TRUE /\ ctxError' = FALSE
     /\ ctxInflight' = EmptyBag
     /\ lastCtx' = CtxOp("start", NoReq)
     /\ UNCHANGED <<reviewVars, pageVars>>
  \/ /\ \E path \in {"/admin-login", "/admin"} : Go(path)
     /\ UNCHANGED <<reviewVars, ctxVars, pageVars>>
  \/ /\ logout
     /\ IF user # Null THEN UserEffects(user') ELSE UNCHANGED ctxVars
     /\ UNCHANGED <<reviewVars, pageVars>>
  \/ /\ CtxRoom(2)
     /\ \E e \in EmailInputs, p \in PasswordInputs : AdminLoginHandleSubmit(e, p)
     /\ UNCHANGED <<reviewVars, ctxVars, pageVars>>
  \/ /\ \E r \in BagToSet(inflight), resp \in SessionResponses :
          /\ AdminLoginResponse(r, resp)
          /\ IF lastOp'.resp = "signedin"
             THEN UserEffects(user')
             ELSE UNCHANGED ctxVars
     /\ UNCHANGED <<reviewVars, pageVars>>
  \/ CtxRoom(1) /\ refreshOrganizer /\ UNCHANGED <<sessionVars, reviewVars, pageVars>>
  \/ CtxRoom(1) /\ refreshEvents /\ UNCHANGED <<sessionVars, reviewVars, pageVars>>
  \/ /\ CtxRoom(2) /\ Len(ctxEvents) < MaxCtxEvents
     /\ createEvent
     /\ UNCHANGED <<sessionVars, reviewVars, pageVars>>
  \/ /\ CtxRoom(2)
     /\ \E e \in CtxEventIds : Contains(ctxEvents, e) /\ updateEvent(e)
     /\ UNCHANGED <<sessionVars, reviewVars, pageVars>>
  \/ /\ CtxRoom(2)
     /\ \E e \in CtxEventIds : Contains(ctxEvents, e) /\ deleteEvent(e)
     /\ UNCHANGED <<sessionVars, reviewVars, pageVars>>
  \/ /\ \E r \in BagToSet(ctxInflight), resp \in ReviewResponses : fetchOrganizerResponse(r, resp)
     /\ UNCHANGED <<sessionVars, reviewVars, pageVars>>
  \/ /\ \E r \in BagToSet(ctxInflight), resp \in ReviewResponses, list \in OrganizerEventLists :
          fetchEventsResponse(r, resp, list)
     /\ UNCHANGED <<sessionVars, reviewVars, pageVars>>
  (* The server answers a create with a new event, an update with the event   *)
  (* addressed.                                                               *)
  \/ /\ \E r \in BagToSet(ctxInflight), resp \in ReviewResponses, data \in CtxEventIds :
          /\ ~Contains(r.snapshot, data)
          /\ createEventResponse(r, resp, data)
     /\ UNCHANGED <<sessionVars, reviewVars, pageVars>>
  \/ /\ \E r \in BagToSet(ctxInflight), resp \in ReviewResponses :
          updateEventResponse(r, resp, r.id)
     /\ UNCHANGED <<sessionVars, reviewVars, pageVars>>
  \/ /\ \E r \in BagToSet(ctxInflight), resp \in ReviewResponses : deleteEventResponse(r, resp)
     /\ UNCHANGED <<sessionVars, reviewVars, pageVars>>

SpecCtx == Init /\ [][NextCtx]_vars

(* EventContext's three mutations on their own, two of them at a time. *)
NextEvents ==
  \/ /\ loadUserFromStorage
     /\ UserEffects(user')
     /\ UNCHANGED <<reviewVars, pageVars>>
  \/ /\ CtxRoom(1) /\ Len(ctxEvents) < MaxCtxEvents
     /\ createEvent
     /\ UNCHANGED <<sessionVars, reviewVars, pageVars>>
  \/ /\ CtxRoom(1)
     /\ \E e \in CtxEventIds : Contains(ctxEvents, e) /\ updateEvent(e)
     /\ UNCHANGED <<sessionVars, reviewVars, pageVars>>
  \/ /\ CtxRoom(1)
     /\ \E e \in CtxEventIds : Contains(ctxEvents, e) /\ deleteEvent(e)
     /\ UNCHANGED <<sessionVars, reviewVars, pageVars>>
  \/ /\ \E r \in BagToSet(ctxInflight), resp \in ReviewResponses, data \in CtxEventIds :
          /\ ~Contains(r.snapshot, data)
          /\ createEventResponse(r, resp, data)
     /\ UNCHANGED <<sessionVars, reviewVars, pageVars>>
  \/ /\ \E r \in BagToSet(ctxInflight), resp \in ReviewResponses :
          updateEventResponse(r, resp, r.id)
     /\ UNCHANGED <<sessionVars, reviewVars, pageVars>>
  \/ /\ \E r \in BagToSet(ctxInflight), resp \in ReviewResponses : deleteEventResponse(r, resp)
     /\ UNCHANGED <<sessionVars, reviewVars, pageVars>>

SpecEvents == Init /\ [][NextEvents]_vars


NextCatalog ==
  \/ OpenCatalog /\ UNCHANGED <<sessionVars, reviewVars, ctxVars, formVars>>
  \/ LeaveCatalog /\ UNCHANGED <<sessionVars, reviewVars, ctxVars, formVars>>
  \/ /\ \E f \in BagToSet(catFetch), resp \in ReviewResponses, db \in Databases :
          fetchApprovedEventsResponse(f, resp, db)
     /\ UNCHANGED <<sessionVars, reviewVars, ctxVars, formVars>>
  \/ /\ \E text \in SearchTerms : setSearchTerm(text)
     /\ UNCHANGED <<sessionVars, reviewVars, ctxVars, formVars>>
  \/ /\ \E selected \in Categories : setSelectedCategory(selected)
     /\ UNCHANGED <<sessionVars, reviewVars, ctxVars, formVars>>

SpecCatalog == Init /\ [][NextCatalog]_vars

(* The creation form: its details, with the first tier's price the only    *)
(* ticket input.                                                           *)
NextForm ==
  \/ OpenForm /\ UNCHANGED <<sessionVars, reviewVars, ctxVars, catVars>>
  \/ LeaveForm /\ UNCHANGED <<sessionVars, reviewVars, ctxVars, catVars>>
  \/ /\ \E field \in FieldSlots : \E value \in DetailValues(field) : setDetail(field, value)
     /\ UNCHANGED <<sessionVars, reviewVars, ctxVars, catVars>>
  \/ /\ \E value \in TierValues("price") : handleTicketChange(1, "price", value)
     /\ UNCHANGED <<sessionVars, reviewVars, ctxVars, catVars>>
  \/ handleSubmit /\ UNCHANGED <<sessionVars, reviewVars, ctxVars, catVars>>
  \/ /\ \E p \in BagToSet(formPost), resp \in PostResponses, list \in ErrorLists :
          handleSubmitResponse(p, resp, list)
     /\ UNCHANGED <<sessionVars, reviewVars, ctxVars, catVars>>

SpecForm == Init /\ [][NextForm]_vars

(* The ticket tiers of a form whose details are filled in. *)
NextTickets ==
  \/ handleAddTicketType /\ UNCHANGED <<sessionVars, reviewVars, ctxVars, catVars>>
  \/ /\ \E index \in 1..MaxTiers : handleRemoveTicketType(index)
     /\ UNCHANGED <<sessionVars, reviewVars, ctxVars, catVars>>
  \/ /\ \E index \in 1..MaxTiers, field \in {"name", "price", "quantity"} :
          \E value \in TierValues(field) : handleTicketChange(index, field, value)
     /\ UNCHANGED <<sessionVars, reviewVars, ctxVars, catVars>>
  \/ handleSubmit /\ UNCHANGED <<sessionVars, reviewVars, ctxVars, catVars>>
  \/ /\ \E p \in BagToSet(formPost), resp \in PostResponses, list \in ErrorLists :
          handleSubmitResponse(p, resp, list)
     /\ UNCHANGED <<sessionVars, reviewVars, ctxVars, catVars>>

InitTickets == InitSession /\ InitReview /\ InitCtx /\ InitCatalog /\ InitFilledForm

SpecTickets == InitTickets /\ [][NextTickets]_vars

(* The views that own a busy flag, side by side: the event form with its   *)
(* upload, the pending list and the review page. Every request is answered *)
(* (axios settles each promise, with the answer or with an error), so each *)
(* answering step is weakly fair.                                          *)
SubmitAnswered ==
  /\ \E p \in BagToSet(formPost), resp \in PostResponses : handleSubmitResponse(p, resp, <<>>)
  /\ UNCHANGED <<sessionVars, reviewVars, ctxVars, catVars>>

UploadAnswered ==
  /\ \E u \in BagToSet(imagePost), resp \in ReviewResponses :
       handleImageUploadResponse(u, resp, "url")
  /\ UNCHANGED <<sessionVars, reviewVars, ctxVars, catVars>>

PendingAnswered ==
  /\ \E f \in BagToSet(listFetch), resp \in ReviewResponses :
       fetchPendingEventsResponse(f, resp, <<1>>)
  /\ UNCHANGED <<sessionVars, ctxVars, pageVars, accepted>>

DetailsAnswered ==
  /\ \E f \in BagToSet(detailFetch), resp \in ReviewResponses :
       fetchEventDetailsResponse(f, resp, "pending", <<"x">>)
  /\ UNCHANGED <<sessionVars, ctxVars, pageVars, accepted>>

ReviewAnswered ==
  /\ \E r \in BagToSet(review), resp \in ReviewResponses : handleReviewResponse(r, resp)
  /\ UNCHANGED <<sessionVars, ctxVars, pageVars>>

NextBusy ==
  \/ OpenForm /\ UNCHANGED <<sessionVars, reviewVars, ctxVars, catVars>>
  \/ LeaveForm /\ UNCHANGED <<sessionVars, reviewVars, ctxVars, catVars>>
  \/ /\ \E value \in TierValues("price") : handleTicketChange(1, "price", value)
     /\ UNCHANGED <<sessionVars, reviewVars, ctxVars, catVars>>
  \/ handleSubmit /\ UNCHANGED <<sessionVars, reviewVars, ctxVars, catVars>>
  \/ SubmitAnswered
  \/ /\ \E file \in {"none", "file"} : handleImageUpload(file)
     /\ UNCHANGED <<sessionVars, reviewVars, ctxVars, catVars>>
  \/ UploadAnswered
  \/ OpenDetail(1) /\ UNCHANGED <<sessionVars, ctxVars, pageVars, accepted>>
  \/ BackToPending /\ UNCHANGED <<sessionVars, ctxVars, pageVars, accepted>>
  \/ PendingAnswered
  \/ DetailsAnswered
  \/ /\ \E st \in {"approved", "rejected"} : handleReview(st)
     /\ UNCHANGED <<sessionVars, ctxVars, pageVars, accepted>>
  \/ ReviewAnswered

SpecBusy ==
  /\ InitTickets /\ [][NextBusy]_vars
  /\ WF_vars(SubmitAnswered) /\ WF_vars(UploadAnswered)
  /\ WF_vars(PendingAnswered) /\ WF_vars(DetailsAnswered) /\ WF_vars(ReviewAnswered)

(***************************************************************************)
(* Properties                                                              *)
(***************************************************************************)

(* C1: after logout(), whichever tier the preceding sign-in wrote to, both *)
(* storage tiers hold no token and no user, the default Authorization      *)
(* header is removed, and the next request through the API client carries  *)
(* no Authorization value.                                                 *)
C1_LogoutClearsBothTiers ==
  lastOp.op = "logout" =>
    /\ localStorage = EmptyStorage
    /\ sessionStorage = EmptyStorage
    /\ defaultAuth = NoHeader
    /\ ApiRequestAuth = NoHeader

(* C2: a review with target status 'rejected' and empty feedback, from the *)
(* detail view (handleReview) or the pending queue (handleQuickAction), is *)
(* refused in the client: no PUT is issued, an error is shown, and the     *)
(* state of the views is unchanged.                                        *)
C2_EmptyRejectionRefused ==
  [][(/\ lastRv'.op \in {"handleReview", "handleQuickAction"}
      /\ lastRv'.status = "rejected"
      /\ lastRv'.fb = <<>>)
     => (/\ lastRv'.put = NoPut
         /\ lastRv'.toast = "error"
         /\ UNCHANGED <<adminView, events, peLoading, peError, quick, listFetch, id, event,
                        feedback, evLoading, evError, submitting, review, detailFetch>>)]_vars

C2_Witness ==
  /\ lastRv.op = "handleReview"
  /\ lastRv.status = "rejected"
  /\ lastRv.fb = <<>>
  /\ lastRv.put = NoPut
  /\ event = "pending"

(* C3 as stated: the outcome of ProtectedRoute depends on (user,           *)
(* requiredRole) only: no user gives the redirect to /signin, a user with  *)
(* another role the redirect to '/', a user with the required role the     *)
(* protected content.                                                      *)
C3_FunctionOfUserAndRole ==
  \A rr \in RequiredRoles :
    LET out == ProtectedRoute(loading, user, rr)
    IN /\ ~Truthy(user) => out = "/signin"
       /\ (Truthy(user) /\ role(user) # rr) => out = "/"
       /\ (Truthy(user) /\ role(user) = rr) => out = "children"

(* C3 amended: the outcome depends on (loading, user, requiredRole): while *)
(* the session is still loading it is the placeholder; once loading is     *)
(* over, no user gives the redirect to /signin, a user with another role   *)
(* the redirect to '/', a user with the required role the protected        *)
(* content. The protected content is rendered only for a user with the     *)
(* required role, and a navigation issues no request.                      *)
C3_FunctionOfLoadingUserAndRole ==
  /\ \A rr \in RequiredRoles :
       LET out == ProtectedRoute(loading, user, rr)
       IN /\ loading => out = "loading"
          /\ (~loading /\ ~Truthy(user)) => out = "/signin"
          /\ (~loading /\ Truthy(user) /\ role(user) # rr) => out = "/"
          /\ (~loading /\ Truthy(user) /\ role(user) = rr) => out = "children"
          /\ out = "children" => (Truthy(user) /\ role(user) = rr)
  /\ View = "children" => (Truthy(user) /\ role(user) = requiredRoleOf(route))
  /\ lastOp.op = "Go" => lastOp.req = NoReq

C3_Witness ==
  /\ lastOp.op = "Go"
  /\ ~loading
  /\ role(user) = "admin"
  /\ route = "/"
  /\ ProtectedRoute(loading, user, "organizer") = "/"
  /\ ProtectedRoute(loading, user, "admin") = "children"

(* C4: at startup, if the durable tier holds a token and a user, then      *)
(* after hydration user and token are the stored values, the default       *)
(* Authorization header is 'Bearer <token>' and loading is false, with no  *)
(* request issued; if either is absent, user and token are null and        *)
(* loading is false.                                                       *)
C4_Hydration ==
  lastOp.op = "loadUserFromStorage" =>
    LET savedToken == localStorage.token
        savedUser == localStorage.user
    IN /\ (/\ savedToken # NoEntry /\ savedUser # NoEntry
           /\ savedToken[2] \in Tokens /\ ~ParseThrows(savedUser))
          => (/\ user = JSONparse(savedUser)
              /\ token = savedToken[2]
              /\ defaultAuth = Bearer(savedToken[2])
              /\ ~loading
              /\ ~netUsed /\ inflight = EmptyBag)
       /\ (savedToken = NoEntry \/ savedUser = NoEntry)
          => (user = Null /\ token = Null /\ ~loading)

C4_Witness ==
  /\ lastOp.op = "loadUserFromStorage"
  /\ localStorage.token = setItem("tokA")
  /\ user = "adm1"
  /\ token = "tokA"
  /\ defaultAuth = Bearer("tokA")
  /\ ~loading

(* C5: after a request received a 401 answer the session is destroyed:     *)
(* user and token are null, ProtectedRoute renders no protected content,   *)
(* and the next request carries no Authorization value.                    *)
C5_Unauthorized ==
  lastOp.resp = "401" =>
    /\ user = Null
    /\ token = Null
    /\ \A rr \in RequiredRoles : ProtectedRoute(loading, user, rr) # "children"
    /\ ApiRequestAuth = NoHeader

(* C6: after a successful sign-in or sign-up through any flow the Session  *)
(* Store holds the answered user and token, and the navigation that        *)
(* follows shows the protected view, not the redirect to /signin.          *)
C6_SignInCreatesSession ==
  lastOp.resp = "signedin" =>
    /\ user = lastOp.usr
    /\ token = lastOp.tok
    /\ route # "/signin"

(* C7: after login(token, user) and until the next logout or 401, every    *)
(* request the client issues, those of EventContext and OrganizerContext   *)
(* included, carries 'Authorization: Bearer <token>'.                      *)
C7_EveryRequestAuthorized ==
  Truthy(loginTok) =>
    /\ lastCtx.req # NoReq => lastCtx.req[2] = Bearer(loginTok)
    /\ lastOp.req # NoReq => lastOp.req[2] = Bearer(loginTok)

(* C8: every sign-in stores token and user in the tier the 'remember me'   *)
(* choice selects (the durable tier when chosen, the session-scoped tier   *)
(* when not) and leaves the other tier unwritten.                          *)
C8_TierByRememberMe ==
  [][lastOp'.resp = "signedin"
     => LET stored == [token |-> setItem(lastOp'.tok), user |-> setItemJSON(lastOp'.usr)]
        IN IF lastOp'.remember = "yes"
           THEN localStorage' = stored /\ sessionStorage' = sessionStorage
           ELSE sessionStorage' = stored /\ localStorage' = localStorage]_vars

(* C9: when a quick review succeeds, exactly the reviewed event leaves the *)
(* local pending list and every other event stays; when it fails, the list *)
(* is unchanged and an error is notified.                                  *)
C9_QuickReviewRemovesExactly ==
  [][lastRv'.op = "handleQuickAction.response"
     => IF lastRv'.status = "success"
        THEN events' = Without(events, lastRv'.id)
        ELSE events' = events /\ lastRv'.toast = "error"]_vars

(* C10: every review request the admin views send targets an event they    *)
(* hold as 'pending': for an event loaded as 'approved' or 'rejected' no   *)
(* PUT /admin/events/:id/review is issued.                                 *)
C10_ReviewOnlyPending ==
  lastRv.put # NoPut => lastRv.held = "pending"

(* C11: when a review is invoked again for an event whose review the       *)
(* server already accepted and the server answers the later call with a    *)
(* conflict, the client shows the error, not a second success, and the     *)
(* answer changes nothing in either view (the busy flag of the detail view *)
(* returns to false).                                                      *)
C11_ConflictChangesNothing ==
  [][(/\ lastRv'.op \in {"handleQuickAction.response", "handleReview.response"}
      /\ lastRv'.status = "failed"
      /\ lastRv'.id \in accepted)
     => (/\ lastRv'.toast = "error"
         /\ UNCHANGED <<adminView, events, peLoading, peError, listFetch, id, event, feedback,
                        evLoading, evError, detailFetch, accepted>>
         /\ (~submitting' \/ UNCHANGED submitting))]_vars

C11_Witness ==
  /\ lastRv.op = "handleQuickAction.response"
  /\ lastRv.status = "failed"
  /\ lastRv.id \in accepted
  /\ adminView = "pending"
  /\ ~Contains(events, lastRv.id)
  /\ quick = EmptyBag

(* C12: every event the public catalog holds after fetchApprovedEvents has *)
(* approvalStatus approved; a pending or rejected event is never in the    *)
(* list, nor among the cards shown, whatever its published flag.           *)
C12_CatalogOnlyApproved ==
  /\ \A k \in 1..Len(catEvents) : catEvents[k].approvalStatus = "approved"
  /\ \A k \in 1..Len(Shown) : Shown[k].approvalStatus = "approved"

(* The catalog holds events while published events that are not approved   *)
(* were left out of the answer.                                            *)
C12_Witness ==
  /\ lastCat.op = "fetchApprovedEvents.response"
  /\ lastCat.withheld # {}
  /\ Len(catEvents) > 0
  /\ ~catLoading

(* A text contains another without regard to case. *)
ContainsIgnoringCase(s, t) ==
  \E k \in 0..Len(s) :
    /\ k + Len(t) <= Len(s)
    /\ \A j \in 1..Len(t) : LowerChar(s[k + j]) = LowerChar(t[j])

(* The event matches the search term and the selected category. *)
Matches(e, term, selected) ==
  /\ \/ ContainsIgnoringCase(e.title, term)
     \/ ContainsIgnoringCase(e.description, term)
     \/ ContainsIgnoringCase(e.location, term)
     \/ \E n \in 1..Len(e.organizer) : ContainsIgnoringCase(e.organizer[n], term)
  /\ (selected = "all" \/ e.category = selected)

(* The positions in the fetched list of the events that match. *)
MatchingPositions ==
  {k \in 1..Len(catEvents) : Matches(catEvents[k], searchTerm, selectedCategory)}

(* C13: the catalog shows exactly the fetched events that contain the      *)
(* search term, case-insensitively, in title, description, location or     *)
(* organizer name AND whose category is the selection (or the selection is *)
(* "all"), in their original order.                                        *)
C13_FilterIsSearchAndCategory ==
  /\ Len(Shown) = Cardinality(MatchingPositions)
  /\ \A k \in MatchingPositions :
       Shown[Cardinality({j \in MatchingPositions : j <= k})] = catEvents[k]

(* An upper-case term is searched within one category: of three fetched    *)
(* events, all of which contain the term in some case, only the one of the *)
(* selected category is shown.                                             *)
C13_Witness ==
  /\ searchTerm = <<"J", "A">>
  /\ selectedCategory = "music"
  /\ Len(catEvents) = 3
  /\ \A k \in 1..3 : Matches(catEvents[k], searchTerm, "all")
  /\ Len(Shown) = 1
  /\ Shown[1].id = 1

(* The positions of the entered tiers whose three inputs are all filled in. *)
CompletePositions ==
  {k \in 1..Len(ticketTypes) :
     ticketTypes[k].name # "" /\ ticketTypes[k].price # "" /\ ticketTypes[k].quantity # ""}

C15_IncludedTiersValid ==
  (lastForm.op = "handleSubmit" /\ lastForm.sent)
    => /\ \A n \in 1..Len(lastForm.tickets) :
            /\ lastForm.tickets[n].name # ""
            /\ lastForm.tickets[n].price # ""
            /\ Number(lastForm.tickets[n].quantity) >= 1
       /\ \E k \in 1..Len(ticketTypes) :
            /\ ticketTypes[k].name # ""
            /\ ticketTypes[k].price # ""
            /\ Number(ticketTypes[k].quantity) >= 1

(* A text input is empty, or holds spaces only. *)
Blank(text) == \A i \in 1..Len(text) : text[i] = " "

(* The required details that are missing. *)
MissingDetails ==
  {slot \in FieldSlots :
     \/ slot = "title" /\ Blank(title)
     \/ slot = "date" /\ date = Undefined
     \/ slot = "time" /\ time = ""
     \/ slot = "location" /\ Blank(location)
     \/ slot = "category" /\ category = ""
     \/ slot = "description" /\ Blank(description)}

(* C16: POST /public/events is issued only when title, location, category  *)
(* and description are non-empty, a date is selected and a time is         *)
(* present; when one of them is missing no request is made, the error slot *)
(* of each missing detail is set, no other detail's slot and no general    *)
(* error is set, and isSubmitting stays false.                             *)
C16_PostOnlyWhenDetailsPresent ==
  lastForm.op = "handleSubmit"
    => /\ lastForm.sent
            => /\ title # <<>> /\ location # <<>> /\ description # <<>>
               /\ category # "" /\ date # Undefined /\ time # ""
               /\ MissingDetails = {}
       /\ MissingDetails # {}
            => /\ ~lastForm.sent
               /\ formPost = EmptyBag
               /\ ~isSubmitting
               /\ lastForm.toast = "error"
               /\ DOMAIN formErrors \cap FieldSlots = MissingDetails
               /\ DOMAIN formErrors \subseteq FieldSlots \cup {"tickets"}

(* A form with a blank title and no date, all else filled in, is           *)
(* submitted: exactly those two slots are set and nothing is sent.         *)
C16_Witness ==
  /\ lastForm.op = "handleSubmit"
  /\ title = <<" ">> /\ date = Undefined
  /\ MissingDetails = {"title", "date"}
  /\ DOMAIN formErrors = {"title", "date"}
  /\ ~lastForm.sent /\ ~isSubmitting /\ formPost = EmptyBag

(* C17: when the creation fails with a structured errors list, every error *)
(* whose param names a detail of the form is set on that detail's slot,    *)
(* errors whose param starts with 'tickets' are set on the tickets slot,   *)
(* and the general slot is set only by an error with an unrecognized       *)
(* param, whatever the form was showing before the submit.                 *)
C17_ErrorsMappedToSlots ==
  (lastForm.op = "handleSubmit.response" /\ lastForm.list # <<>>)
    => /\ \A n \in 1..Len(lastForm.list) :
            LET err == lastForm.list[n]
            IN /\ err.param \in FieldSlots
                    => (err.param \in DOMAIN formErrors /\ formErrors[err.param] = err.msg)
               /\ err.param \in TicketParams => "tickets" \in DOMAIN formErrors
       /\ "general" \in DOMAIN formErrors
            => \E n \in 1..Len(lastForm.list) :
                 lastForm.list[n].param \notin FieldSlots \cup TicketParams

(* C18: every failed server interaction (an error status, an answer with   *)
(* success = false, or no answer) raises a toast besides any inline error, *)
(* in AdminLogin and AuthForm as in the other flows.                       *)
C18_FailuresRaiseToast ==
  lastOp.resp \in ErrorKinds => lastOp.toast = "error"

(* C19: the stored credential (token and user of either tier, and the      *)
(* default Authorization header) is written or cleared only by login() and *)
(* logout() (and by the browser ending the session, and by the hydration   *)
(* that restores the header), and never while a request is in flight.      *)
C19_SingleWriter ==
  [][(\/ localStorage' # localStorage
      \/ sessionStorage' # sessionStorage
      \/ defaultAuth' # defaultAuth)
     => /\ \/ lastOp'.op \in {"logout", "Reload", "loadUserFromStorage"}
           \/ lastOp'.op = "AuthForm.response"
           \/ lastOp'.op = "AdminLogin.response" /\ lastOp'.resp = "signedin"
        /\ inflight' = EmptyBag]_vars

(* C20: when a request made through the API client is answered 401, token  *)
(* and user are removed from both storage tiers, the location is not       *)
(* changed, and the rejection reaches the calling view, which shows its    *)
(* error if it is still mounted.                                           *)
C20_UnauthorizedClearsStorage ==
  [][(/\ lastOp'.op \in {"OrganizerLogin.response", "AdminLogin.response",
                         "OrganizerSignup.response"}
      /\ lastOp'.resp = "401"
      /\ inflight' # inflight)
     => /\ localStorage' = EmptyStorage
        /\ sessionStorage' = EmptyStorage
        /\ route' = route
        /\ UNCHANGED <<user, token, defaultAuth>>
        /\ (\A r \in BagToSet(inflight) : r.live) => (errors' # {} /\ ~isLoading')]_vars

(* A signed-in user's admin sign-in is answered 401: both tiers are empty, *)
(* the page is still /admin-login and shows its error.                     *)
C20_Witness ==
  /\ lastOp.op = "AdminLogin.response" /\ lastOp.resp = "401"
  /\ user # Null /\ token # Null
  /\ localStorage = EmptyStorage /\ sessionStorage = EmptyStorage
  /\ route = "/admin-login"
  /\ errors = {"general"}

(* C22: an event whose quick review succeeded does not come back into the  *)
(* local pending list when the answer to another quick review is handled:  *)
(* after two quick reviews on different events both succeeded, both events *)
(* are absent from the list.                                               *)
C22_ReviewedEventStaysOut ==
  [][lastRv'.op = "handleQuickAction.response"
     => \A i \in accepted : Contains(events', i) => Contains(events, i)]_vars

(* C23: while the session user is null, the answer to the last fetch in    *)
(* flight (one started for the previous user) leaves EventContext.events   *)
(* empty and OrganizerContext.organizer null.                              *)
C23_NoDataWithoutUser ==
  [][(/\ user' = Null
      /\ ctxEvents = <<>> /\ organizer = Null
      /\ ctxInflight' = EmptyBag
      /\ \E r \in BagToSet(ctxInflight) :
           r.kind \in {"fetchEvents", "fetchOrganizer"} /\ ctxInflight' = Remove(ctxInflight, r))
     => (ctxEvents' = <<>> /\ organizer' = Null)]_vars

(* C24: after a successful sign-in, whatever tiers earlier sign-ins wrote   *)
(* to, the token the request interceptor attaches to the next request is   *)
(* the token that sign-in returned.                                        *)
C24_LatestTokenIsSent ==
  lastOp.resp = "signedin" => ApiRequestAuth = Bearer(lastOp.tok)

(* C25: for every feedback text, whitespace-only texts included, rejecting  *)
(* from the pending list sends the review request exactly when rejecting   *)
(* the same text from the detail page would: whichever of the two handlers *)
(* ran last, it sent the request iff the other one's check lets the text   *)
(* through.                                                                *)
C25_RejectionChecksAgree ==
  /\ (lastRv.op = "handleQuickAction" /\ lastRv.status = "rejected" /\ ~lastRv.cancelled)
       => ((lastRv.put # NoPut) <=> ~ReviewRefuses("rejected", lastRv.fb))
  /\ (lastRv.op = "handleReview" /\ lastRv.status = "rejected")
       => ((lastRv.put # NoPut)
             <=> ~QuickActionRefuses("rejected", [cancelled |-> FALSE, text |-> lastRv.fb]))

(* C26: when a sign-in on a role-specific page (organizer, admin, doctor)  *)
(* is answered with success for a user of another role, the answer writes  *)
(* nothing to either storage tier, does not call login, does not navigate, *)
(* and the page that is still mounted shows an error with its busy flag    *)
(* cleared.                                                                *)
WantedRole(op) ==
  CASE op = "OrganizerLogin.response" -> "organizer"
    [] op = "AdminLogin.response" -> "admin"
    [] op = "DoctorLogin.response" -> "doctor"
    [] OTHER -> Null

WrongRoleAnswer(op) ==
  /\ WantedRole(op.op) # Null
  /\ op.usr \in Users
  /\ role(op.usr) # WantedRole(op.op)

C26_WrongRoleChangesNothing ==
  [][WrongRoleAnswer(lastOp')
     => /\ localStorage' = localStorage /\ sessionStorage' = sessionStorage
        /\ user' = user /\ token' = token /\ defaultAuth' = defaultAuth
        /\ loginTok' = loginTok
        /\ route' = route
        /\ \A r \in BagToSet(inflight) :
             (r.live /\ inflight' = Remove(inflight, r)) => (~isLoading' /\ errors' # {})]_vars

C26_Witness ==
  /\ WrongRoleAnswer(lastOp) /\ lastOp.op = "DoctorLogin.response"
  /\ route = "/doctor-login" /\ ~isLoading /\ errors = {"general"}

(* C27: an answer with an OK status whose body reports success = false     *)
(* never reaches login and never produces a session or stored credentials, *)
(* on AuthForm as on the other sign-in and sign-up pages: the step that    *)
(* handles it leaves the session and both storage tiers as they were.      *)
C27_FailureBodyMakesNoSession ==
  [][lastOp'.resp = "failure"
     => /\ user' = user /\ token' = token /\ defaultAuth' = defaultAuth
        /\ loginTok' = loginTok
        /\ localStorage' = localStorage /\ sessionStorage' = sessionStorage]_vars

(* C28: in every reachable state and in each storage tier separately, the  *)
(* 'token' entry is present exactly when the 'user' entry is present.      *)
C28_TokenAndUserTogether ==
  \A tier \in {localStorage, sessionStorage} : (tier.token = <<>>) <=> (tier.user = <<>>)

C28_Witness ==
  /\ lastOp.op = "logout"
  /\ localStorage = EmptyStorage
  /\ sessionStorage.token # <<>> /\ sessionStorage.user # <<>>

(* C29: when createEvent, updateEvent or deleteEvent fails, the cached     *)
(* events list is unchanged, error is set, loading is false and the        *)
(* failure is rethrown; the list is rewritten (append, replace the entry   *)
(* with the same id, remove the entry with that id) only by the answer to  *)
(* a request that succeeded.                                               *)
Mutations == {"createEvent", "updateEvent", "deleteEvent"}

Answered(r) ==
  /\ r \in BagToSet(ctxInflight) /\ r.kind \in Mutations
  /\ ctxInflight' = Remove(ctxInflight, r)
  /\ lastCtx'.op \in {"response", "rethrown"}

C29_FailedMutationKeepsList ==
  [][\A r \in BagToSet(ctxInflight) :
       Answered(r) =>
         /\ lastCtx'.op = "rethrown"
              => (ctxEvents' = ctxEvents /\ ctxError' /\ ~ctxLoading')
         /\ ctxEvents' # ctxEvents => lastCtx'.op = "response"]_vars

C29_Witness ==
  /\ lastCtx.op = "rethrown"
  /\ ctxEvents # <<>> /\ ctxError /\ ~ctxLoading

(* C30: at startup with a valid token and user in durable storage,         *)
(* ProtectedRoute never redirects to /signin: while hydration is pending   *)
(* it renders only the placeholder, neither a redirect nor the protected   *)
(* content, and the step that completes hydration renders by the role      *)
(* check: the protected content for the required role, the redirect to '/' *)
(* for another role, and the location never becomes /signin.               *)
ValidDurablePair ==
  /\ localStorage.token # NoEntry /\ localStorage.user # NoEntry
  /\ localStorage.token[2] \in Tokens
  /\ ~ParseThrows(localStorage.user)

C30_StartupNeverRedirectsToSignin ==
  [][/\ (pc' = "boot" /\ ValidDurablePair')
          => /\ \A rr \in RequiredRoles : ProtectedRoute(loading', user', rr) = "loading"
             /\ route' = route
     /\ (pc = "boot" /\ pc' # "boot" /\ ValidDurablePair)
          => /\ \A rr \in RequiredRoles :
                  ProtectedRoute(loading', user', rr)
                    = IF role(JSONparse(localStorage.user)) = rr THEN "children" ELSE "/"
             /\ route' = "/signin" => route = "/signin"]_vars

C30_Witness ==
  /\ lastOp.op = "loadUserFromStorage"
  /\ ValidDurablePair
  /\ route = "/admin" /\ View = "children"
  /\ user = JSONparse(localStorage.user)

(* C21: every submit, review, upload and fetch that sets its view's busy   *)
(* flag (isSubmitting, isUploading, submitting, loading) clears it once    *)
(* its request is answered, whatever the answer (success, success = false, *)
(* thrown error): a flag that is set is eventually clear again. The step   *)
(* that handles an answer changes no other view's busy flag.               *)
OtherThanForm ==
  <<submitting, evLoading, peLoading, isLoading, loading, ctxLoading, orgLoading, catLoading>>

OtherThanReview ==
  <<isSubmitting, isUploading, isLoading, loading, ctxLoading, orgLoading, catLoading>>

C21_BusyFlagsClear ==
  /\ isSubmitting ~> ~isSubmitting
  /\ isUploading ~> ~isUploading
  /\ submitting ~> ~submitting
  /\ (adminView = "detail" /\ evLoading) ~> ~(adminView = "detail" /\ evLoading)
  /\ (adminView = "pending" /\ peLoading) ~> ~(adminView = "pending" /\ peLoading)
  /\ [][/\ (formPost' # formPost \/ imagePost' # imagePost) => UNCHANGED OtherThanForm
        /\ (review' # review \/ detailFetch' # detailFetch \/ listFetch' # listFetch)
             => UNCHANGED OtherThanReview
        /\ (review' # review /\ lastRv'.op = "handleReview.response")
             => UNCHANGED peLoading
        /\ (listFetch' # listFetch /\ lastRv'.op = "fetchPendingEvents.response")
             => UNCHANGED <<evLoading, submitting>>]_vars

C21_Witness ==
  /\ lastForm.op = "handleSubmit.response" /\ lastForm.toast = "error"
  /\ formView = "mounted" /\ ~isSubmitting
  /\ adminView = "detail" /\ submitting

=============================================================================
